---- MODULE Spec2Model ----
(***************************************************************************)
(* TinyPedal: the fuel module's per-tick calculator (module_fuel.py,       *)
(* calc_data) and the relative module's per-tick ordering builders         *)
(* (module_relative.py), as state machines.                                *)
(*                                                                         *)
(* Units.  Fuel amounts are fixed-point integers, one unit = 1e-7 of the   *)
(* telemetry unit, so that round6 (round(x, 6)) is a real rounding.        *)
(* Times are in tenths of a second (0.3 s = 3, 1 s = 10, 3 s = 30).        *)
(* Positions are whole metres.                                             *)
(***************************************************************************)
EXTENDS Integers, Sequences, FiniteSets, TLC

(***************************************************************************)
(* Bounds of the model                                                     *)
(***************************************************************************)
\* fuel readings are the levels 0..MaxLevel of LevelSize units each
MaxLevel == 1
\* a tick that would take used_curr above MaxUsedLevels levels is not explored
MaxUsedLevels == 2
\* a tick that would record more than MaxKnots knots in the current-lap curve
\* (the zero knot included) is not explored
MaxKnots == 2
\* lap-start times read are 1..MaxLapStart
MaxLapStart == 3
\* the telemetry shows 0..MaxVehicles vehicles
MaxVehicles == 8
\* the curves saved and loaded have up to MaxRows rows
MaxRows == 11
MaxThreads == 2
MaxIterations == 12
MaxPlaces == 12
\* calls of Setting.save() followed per calling thread
MaxSaves == 2
\* entries the consumption history holds
MaxHistory == 3

(***************************************************************************)
(* Program constants                                                       *)
(***************************************************************************)
ValidateAfter == 3
ValidateUntil == 30
DesyncLapTime == 10
DesyncPosition == 300
EndOffset == 10
UnsetLapStart == -1
RelativeMin == 7
RelativeExtraMax == 60
PlacesMax == 128
MinTopMax == 5
NoLapTime == 99999
MinRows == 10
LoopLimit == 10
MinusSign == 10
OtherChar == 11

\* one fuel level in fixed-point units: 1.0000003
LevelSize == 10000000 + 3

Max(a, b) == IF a > b THEN a ELSE b
Min(a, b) == IF a < b THEN a ELSE b
Last(s) == s[Len(s)]

RECURSIVE Pow10(_)
Pow10(n) == IF n <= 0 THEN 1 ELSE 10 * Pow10(n - 1)

\* round6 = partial(round, ndigits=6), on a non-negative value x that carries
\* d decimals: a value of at most 6 decimals is returned as it is
Round6(x, d) ==
    IF d <= 6 THEN x
    ELSE LET q == Pow10(d - 6) IN ((x + q \div 2) \div q) * q

\* DELTA_ZERO = 0.0,0.0 and DELTA_DEFAULT = (DELTA_ZERO,)
DELTA_ZERO == <<0, 0>>
DELTA_DEFAULT == <<DELTA_ZERO>>

VARIABLES
    gen,    \* the local variables of one calc_data generator
    api,    \* the values the telemetry source shows now
    mark,   \* <<elapsed-time reading taken when the lap awaiting validation
            \* was closed>>, NoMark when no lap awaits validation
    scene,  \* what the relative module reads in one tick: the vehicles'
            \* telemetry and the user settings
    relative, \* minfo.relative: the lists the relative module publishes
    output, \* minfo.fuel: the values the fuel module publishes
    pub,    \* the two module threads inside a tick: how many of the tick's
            \* values each has stored, the values it is storing, and the
            \* values that were published when the tick began
    seen,   \* what the reader thread read last
    poll,   \* the module objects and their update threads: the event, the
            \* stopped flag, and each thread's place and locals in update_data
    disk,   \* the consumption file of the current combo
    call    \* one call of a function: its arguments and its result

fuelvars == <<gen, api, mark>>
relvars == <<scene, relative>>
pubvars == <<pub, seen>>
sysvars == <<poll, disk, call>>
vars == <<gen, api, mark, scene, relative, output, pub, seen, poll, disk, call>>

NoMark == <<>>

(***************************************************************************)
(* Python list operations                                                  *)
(***************************************************************************)

\* a slice bound as Python normalises it for a list of n items
SliceBound(i, n) == IF i < 0 THEN Max(i + n, 0) ELSE Min(i, n)

\* s[a:b], s[a:] and s[:b] of a Python list (0-based, end exclusive)
Slice(s, a, b) ==
    LET lo == SliceBound(a, Len(s))
        hi == SliceBound(b, Len(s))
    IN  IF lo >= hi THEN <<>> ELSE SubSeq(s, lo + 1, hi)

SliceFrom(s, a) == Slice(s, a, Len(s))
SliceTo(s, b) == Slice(s, 0, b)

\* [x] * n
RECURSIVE Repeat(_, _)
Repeat(x, n) == IF n <= 0 THEN <<>> ELSE <<x>> \o Repeat(x, n - 1)

\* a < b for two tuples of numbers, as Python compares tuples
RECURSIVE TupleLessFrom(_, _, _)
TupleLessFrom(a, b, k) ==
    IF k > Len(a) \/ k > Len(b) THEN Len(a) < Len(b)
    ELSE IF a[k] < b[k] THEN TRUE
    ELSE IF a[k] > b[k] THEN FALSE
    ELSE TupleLessFrom(a, b, k + 1)

TupleLess(a, b) == TupleLessFrom(a, b, 1)

\* sorted(s, key=...): keys[i] is the key of s[i]; the sort is stable
RECURSIVE SortOrder(_, _)
SortOrder(keys, n) ==
    IF n = 0 THEN <<>>
    ELSE LET done == SortOrder(keys, n - 1)
             at == Cardinality({ j \in 1..(n - 1) :
                                   ~TupleLess(keys[n], keys[done[j]]) })
         IN  SubSeq(done, 1, at) \o <<n>> \o SubSeq(done, at + 1, n - 1)

SortedByKeys(s, keys) ==
    LET order == SortOrder(keys, Len(s))
    IN  [ i \in 1..Len(s) |-> s[order[i]] ]

\* sorted(s) of a list of tuples
Sorted(s) == SortedByKeys(s, s)

\* sorted(s, reverse=True) of a list of tuples no two of which are equal
SortedReverse(s) ==
    LET up == Sorted(s) IN [ i \in 1..Len(s) |-> up[Len(s) + 1 - i] ]

\* s.index(x) of a list that holds x
IndexOf(s, x) == (CHOOSE i \in 1..Len(s) :
                    s[i] = x /\ \A j \in 1..(i - 1) : s[j] # x) - 1

Contains(s, x) == \E i \in 1..Len(s) : s[i] = x

\* list(chain(*lists))
RECURSIVE Chain(_)
Chain(lists) ==
    IF lists = <<>> THEN <<>> ELSE Head(lists) \o Chain(Tail(lists))

(***************************************************************************)
(* module_relative.py: the relative list                                   *)
(***************************************************************************)

\* calc.circular_relative_distance (calculation.py)
circular_relative_distance(circle_length, plr_dist, opt_dist) ==
    LET rel_dist == opt_dist - plr_dist
        far == 2 * (IF rel_dist < 0 THEN -rel_dist ELSE rel_dist)
                 > circle_length
    IN  IF far /\ opt_dist > plr_dist THEN rel_dist - circle_length
        ELSE IF far /\ opt_dist < plr_dist THEN rel_dist + circle_length
        ELSE rel_dist

\* lines 318-324
max_relative_vehicles(add_front, add_behind) ==
    LET front == Min(Max(add_front, 0), RelativeExtraMax)
        behind == Min(Max(add_behind, 0), RelativeExtraMax)
    IN  << RelativeMin + front + behind, front, behind >>

\* line 74
VehTotal(sc) == Max(sc.total_vehicles, 1)

\* lines 105-110 without the session check of line 105: the vehicles in
\* the garage are hidden in every session
IsShownAnySession(sc, index) ==
    sc.setting.show_vehicle_in_garage_for_race \/ ~sc.in_garage[index]

\* lines 105-110: whether the vehicle is put in the candidate pool
IsShown(sc, index) ==
    LET race_check ==
            ~sc.setting.show_vehicle_in_garage_for_race /\ sc.in_race
    IN  ~race_check \/ ~sc.in_garage[index]

\* lines 101-113: the (relative distance, index) pairs of indices 0..n-1
RECURSIVE RelativeDistanceUpTo(_, _)
RelativeDistanceUpTo(sc, n) ==
    IF n = 0 THEN <<>>
    ELSE LET index == n - 1
             rest == RelativeDistanceUpTo(sc, n - 1)
         IN  IF IsShown(sc, index)
             THEN Append(rest,
                    << circular_relative_distance(
                           sc.track_length, sc.distance[sc.plr_index],
                           sc.distance[index]),
                       index >>)
             ELSE rest

get_relative_distance(sc) == RelativeDistanceUpTo(sc, VehTotal(sc))

\* lines 138-141
PlayerPosition(sorted_veh_list, plr_index) ==
    IF Contains(sorted_veh_list, plr_index)
    THEN IndexOf(sorted_veh_list, plr_index)
    ELSE 0

\* mutant: a short front side is not filled from the tail of the list
FrontListNoWrap(veh_list, plr_pos, add_front) ==
    LET front_cut == Slice(veh_list, Max(plr_pos - 3 - add_front, 0), plr_pos)
        front_miss == 3 + add_front - Len(front_cut)
    IN  Repeat(-1, front_miss) \o front_cut

\* lines 147-150
FrontList(veh_list, plr_pos, add_front) ==
    LET front_cut == Slice(veh_list, Max(plr_pos - 3 - add_front, 0), plr_pos)
        front_miss == 3 + add_front - Len(front_cut)
    IN  SliceFrom(veh_list, Len(veh_list) - front_miss) \o front_cut

\* lines 152-155 with the slice begun one place before the player
BehindListFromAhead(veh_list, plr_pos, add_behind) ==
    LET behind_cut ==
            Slice(veh_list, Max(plr_pos - 1, 0), plr_pos + 4 + add_behind)
        behind_miss == 4 + add_behind - Len(behind_cut)
    IN  behind_cut \o SliceTo(veh_list, behind_miss)

\* lines 152-155
BehindList(veh_list, plr_pos, add_behind) ==
    LET behind_cut == Slice(veh_list, plr_pos, plr_pos + 4 + add_behind)
        behind_miss == 4 + add_behind - Len(behind_cut)
    IN  behind_cut \o SliceTo(veh_list, behind_miss)

\* lines 130-158
create_relative_index(rel_dist_list, plr_index, max_rel_veh, add_front, add_behind) ==
    IF rel_dist_list = <<>> THEN rel_dist_list
    ELSE LET sorted_veh_list ==
                 [ i \in 1..Len(rel_dist_list) |-> rel_dist_list[i][2] ]
             plr_pos == PlayerPosition(sorted_veh_list, plr_index)
             num_diff == max_rel_veh - Len(sorted_veh_list)
             veh_list == sorted_veh_list \o Repeat(-1, num_diff)
         IN  FrontList(veh_list, plr_pos, add_front)
               \o BehindList(veh_list, plr_pos, add_behind)

\* lines 79-80: rel_dist_list
RelDistList(sc) == SortedReverse(get_relative_distance(sc))

\* lines 60-64 and 79-82: rel_idx_list
RelIdxList(sc) ==
    LET lim == max_relative_vehicles(
                   sc.setting.additional_players_front,
                   sc.setting.additional_players_behind)
    IN  create_relative_index(
            RelDistList(sc), sc.plr_index, lim[1], lim[2], lim[3])

(***************************************************************************)
(* module_relative.py: the standings list                                  *)
(***************************************************************************)

\* line 34
ALL_PLACES == [ i \in 1..PlacesMax |-> i ]

\* lines 327-333
min_top_vehicles_in_class(min_top_veh) == Min(Max(min_top_veh, 1), MinTopMax)

\* lines 336-343
max_vehicles_in_class(max_cls_veh, min_top_veh, min_add_veh) ==
    Max(max_cls_veh, min_top_veh + min_add_veh)

\* lines 346-353
max_vehicle_limit_set(min_top_veh, max_all, max_others, max_player) ==
    << max_vehicles_in_class(max_all, min_top_veh, 2),
       max_vehicles_in_class(max_others, min_top_veh, 0),
       max_vehicles_in_class(max_player, min_top_veh, 2) >>

\* lines 116-127: the tuples of indices 0..n-1
RECURSIVE VehicleClassDataUpTo(_, _)
VehicleClassDataUpTo(sc, n) ==
    IF n = 0 THEN <<>>
    ELSE LET index == n - 1
             laptime_best == sc.best_laptime[index]
         IN  Append(VehicleClassDataUpTo(sc, n - 1),
                    << sc.class_name[index],
                       sc.place[index],
                       index,
                       IF laptime_best > 0 THEN laptime_best ELSE NoLapTime >>)

get_vehicle_class_data(sc) == VehicleClassDataUpTo(sc, VehTotal(sc))

\* calc.session_best_laptime (calculation.py): the loop over the first n rows
RECURSIVE SessionBestUpTo(_, _, _)
SessionBestUpTo(data_list, column, n) ==
    IF n = 0 THEN NoLapTime
    ELSE LET laptime == SessionBestUpTo(data_list, column, n - 1)
             value == data_list[n][column + 1]
         IN  IF 0 < value /\ value < laptime THEN value ELSE laptime

session_best_laptime(data_list, column) ==
    SessionBestUpTo(data_list, column, Len(data_list))

\* lines 199-235: the generator's locals and output after n rows
RECURSIVE PositionInClassUpTo(_, _)
PositionInClassUpTo(sorted_veh_class, n) ==
    IF n = 0
    THEN [ out |-> <<>>,
           initial_class |-> sorted_veh_class[1][1],
           position_in_class |-> 0,
           laptime_class_best |-> NoLapTime,
           player_index_ahead |-> -1 ]
    ELSE LET was == PositionInClassUpTo(sorted_veh_class, n - 1)
             veh_sort == sorted_veh_class[n]
             position_in_class ==
                 IF veh_sort[1] = was.initial_class
                 THEN was.position_in_class + 1
                 ELSE 1
             laptime_class_best ==
                 IF position_in_class = 1 THEN veh_sort[4]
                 ELSE was.laptime_class_best
             player_index_ahead ==
                 IF position_in_class = 1 THEN -1
                 ELSE was.player_index_ahead
             player_index_behind ==
                 IF n + 1 <= Len(sorted_veh_class)
                      /\ sorted_veh_class[n + 1][1] = veh_sort[1]
                 THEN sorted_veh_class[n + 1][3]
                 ELSE -1
         IN  [ out |-> Append(was.out,
                         << veh_sort[3],
                            position_in_class,
                            veh_sort[1],
                            session_best_laptime(sorted_veh_class, 3),
                            laptime_class_best,
                            player_index_ahead,
                            player_index_behind >>),
               initial_class |-> veh_sort[1],
               position_in_class |-> position_in_class,
               laptime_class_best |-> laptime_class_best,
               player_index_ahead |-> veh_sort[3] ]

\* lines 199-235 without the reset of line 213: the counter runs on over
\* the class change
create_position_in_class_no_reset(sorted_veh_class) ==
    LET out == PositionInClassUpTo(sorted_veh_class,
                                   Len(sorted_veh_class)).out
    IN  [ i \in 1..Len(out) |-> [ out[i] EXCEPT ![2] = i ] ]

create_position_in_class(sorted_veh_class) ==
    PositionInClassUpTo(sorted_veh_class, Len(sorted_veh_class)).out

\* lines 161-172
create_class_position(sc) ==
    LET raw_veh_class == get_vehicle_class_data(sc)
        classes == { raw_veh_class[i][1] : i \in 1..Len(raw_veh_class) }
        place_index == [ i \in 1..Len(raw_veh_class) |->
                           << raw_veh_class[i][2], raw_veh_class[i][3] >> ]
    IN  [ class_pos_list |->
              Sorted(create_position_in_class(Sorted(raw_veh_class))),
          place_index_list |-> Sorted(place_index),
          is_multi_class |-> Cardinality(classes) > 1 ]

\* mutant: the odd slot of the window goes behind the player
create_reference_place_rear(min_top_veh, veh_total, plr_place, veh_limit) ==
    IF veh_total <= veh_limit THEN SliceTo(ALL_PLACES, veh_total)
    ELSE IF plr_place <= min_top_veh THEN SliceTo(ALL_PLACES, veh_limit)
    ELSE LET max_cut_range == veh_limit - min_top_veh
             rear_cut_count == max_cut_range \div 2
             front_cut_count == max_cut_range - rear_cut_count
             front_cut_raw == Max(plr_place - front_cut_count, min_top_veh)
             rear_cut_max == Min(front_cut_raw + max_cut_range, veh_total)
             front_cut_max == rear_cut_max - max_cut_range
         IN  SliceTo(ALL_PLACES, min_top_veh)
               \o Slice(ALL_PLACES, front_cut_max, rear_cut_max)

\* mutant: the window around the player is cut one place further ahead
create_reference_place_ahead(min_top_veh, veh_total, plr_place, veh_limit) ==
    IF veh_total <= veh_limit THEN SliceTo(ALL_PLACES, veh_total)
    ELSE IF plr_place <= min_top_veh THEN SliceTo(ALL_PLACES, veh_limit)
    ELSE LET max_cut_range == veh_limit - min_top_veh
             rear_cut_count == (max_cut_range - 1) \div 2
             front_cut_count == max_cut_range - rear_cut_count
             front_cut_raw == Max(plr_place - front_cut_count, min_top_veh)
             rear_cut_max == Min(front_cut_raw + max_cut_range, veh_total)
             front_cut_max == rear_cut_max - max_cut_range
         IN  SliceTo(ALL_PLACES, min_top_veh)
               \o Slice(ALL_PLACES, front_cut_max - rear_cut_count - 1,
                        rear_cut_max - rear_cut_count - 1)

\* mutant: the front of the window is not held behind the top band
create_reference_place_unclamped(min_top_veh, veh_total, plr_place, veh_limit) ==
    IF veh_total <= veh_limit THEN SliceTo(ALL_PLACES, veh_total)
    ELSE IF plr_place <= min_top_veh THEN SliceTo(ALL_PLACES, veh_limit)
    ELSE LET max_cut_range == veh_limit - min_top_veh
             rear_cut_count == (max_cut_range - 1) \div 2
             front_cut_count == max_cut_range - rear_cut_count
             front_cut_raw == plr_place - front_cut_count
             rear_cut_max == Min(front_cut_raw + max_cut_range, veh_total)
             front_cut_max == rear_cut_max - max_cut_range
         IN  SliceTo(ALL_PLACES, min_top_veh)
               \o Slice(ALL_PLACES, front_cut_max, rear_cut_max)

\* lines 267-287
create_reference_place(min_top_veh, veh_total, plr_place, veh_limit) ==
    IF veh_total <= veh_limit THEN SliceTo(ALL_PLACES, veh_total)
    ELSE IF plr_place <= min_top_veh THEN SliceTo(ALL_PLACES, veh_limit)
    ELSE LET max_cut_range == veh_limit - min_top_veh
             rear_cut_count == (max_cut_range - 1) \div 2
             front_cut_count == max_cut_range - rear_cut_count
             front_cut_raw == Max(plr_place - front_cut_count, min_top_veh)
             rear_cut_max == Min(front_cut_raw + max_cut_range, veh_total)
             front_cut_max == rear_cut_max - max_cut_range
         IN  SliceTo(ALL_PLACES, min_top_veh)
               \o Slice(ALL_PLACES, front_cut_max, rear_cut_max)

\* lines 290-298
RECURSIVE player_index_from_place_reference(_, _)
player_index_from_place_reference(ref_place_list, place_index_list) ==
    IF ref_place_list = <<>> THEN << -1 >>
    ELSE LET ref_idx == Head(ref_place_list)
         IN  IF 0 < ref_idx /\ ref_idx <= Len(place_index_list)
             THEN << place_index_list[ref_idx][2] >>
                    \o player_index_from_place_reference(
                           Tail(ref_place_list), place_index_list)
             ELSE << -1 >>

\* lines 259-264
calc_standings_index(min_top_veh, veh_total, veh_limit, plr_place, place_index_list) ==
    player_index_from_place_reference(
        create_reference_place(min_top_veh, veh_total, plr_place, veh_limit),
        place_index_list)

\* lines 301-315: the generator's locals and output after n rows
RECURSIVE SplitClassUpTo(_, _)
SplitClassUpTo(class_list, n) ==
    IF n = 0
    THEN [ out |-> <<>>, class_name |-> class_list[1][3],
           index_start |-> 0, index_end |-> 0 ]
    ELSE LET was == SplitClassUpTo(class_list, n - 1)
             vehicle == class_list[n]
         IN  IF vehicle[3] = was.class_name
             THEN [ was EXCEPT !.index_end = @ + 1 ]
             ELSE [ out |-> Append(was.out,
                              Slice(class_list, was.index_start,
                                    was.index_end)),
                    class_name |-> vehicle[3],
                    index_start |-> was.index_end,
                    index_end |-> was.index_end + 1 ]

split_class_list(class_list) ==
    LET end == SplitClassUpTo(class_list, Len(class_list))
    IN  Append(end.out, Slice(class_list, end.index_start, end.index_end))

\* lines 356-358
sort_class_collection(collection) == collection[1][5]

\* lines 242-256: the list yielded for one class
ClassStandingsIndex(min_top_veh, plr_index, class_list, veh_limit_other, veh_limit_player) ==
    LET indices == [ i \in 1..Len(class_list) |-> class_list[i][1] ]
        positions == [ i \in 1..Len(class_list) |-> class_list[i][2] ]
        place_index_list ==
            [ i \in 1..Len(class_list) |-> << positions[i], indices[i] >> ]
        veh_total == Last(positions)
        has_player == Contains(indices, plr_index)
        veh_limit == IF has_player THEN veh_limit_player ELSE veh_limit_other
        plr_place ==
            IF has_player THEN positions[IndexOf(indices, plr_index) + 1]
            ELSE 0
    IN  calc_standings_index(
            min_top_veh, veh_total, veh_limit, plr_place, place_index_list)

\* lines 238-256
create_class_standings_index(min_top_veh, plr_index, class_collection, veh_limit_other, veh_limit_player) ==
    [ c \in 1..Len(class_collection) |->
        ClassStandingsIndex(min_top_veh, plr_index, class_collection[c],
                            veh_limit_other, veh_limit_player) ]

\* lines 175-196
create_standings_index(min_top_veh, veh_limit, veh_total, plr_index, plr_place, class_pos_list, place_index_list, is_multi_class) ==
    IF is_multi_class
    THEN LET sorted_class_pos_list ==
                 SortedByKeys(class_pos_list,
                     [ i \in 1..Len(class_pos_list) |->
                         << class_pos_list[i][3], class_pos_list[i][5],
                            class_pos_list[i][2] >> ])
             split == split_class_list(sorted_class_pos_list)
             class_collection ==
                 SortedByKeys(split,
                     [ c \in 1..Len(split) |->
                         << sort_class_collection(split[c]) >> ])
         IN  Chain(create_class_standings_index(
                 min_top_veh, plr_index, class_collection,
                 veh_limit[2], veh_limit[3]))
    ELSE calc_standings_index(
             min_top_veh, veh_total, veh_limit[1], plr_place,
             place_index_list)

(***************************************************************************)
(* module_relative.py: one tick of update_data                             *)
(***************************************************************************)

\* lines 59-93: the three lists stored in minfo.relative
RelativeOutput(sc) ==
    LET min_top_veh ==
            min_top_vehicles_in_class(sc.setting.min_top_vehicles)
        veh_limit ==
            max_vehicle_limit_set(
                min_top_veh,
                sc.setting.max_vehicles_combined_mode,
                sc.setting.max_vehicles_per_split_others,
                sc.setting.max_vehicles_per_split_player)
        cls == create_class_position(sc)
    IN  [ classes |-> cls.class_pos_list,
          relative |-> RelIdxList(sc),
          standings |->
              create_standings_index(
                  min_top_veh, veh_limit, VehTotal(sc), sc.plr_index,
                  sc.place[sc.plr_index], cls.class_pos_list,
                  cls.place_index_list,
                  sc.setting.enable_multi_class_split_mode
                      /\ cls.is_multi_class) ]

\* minfo.relative before the first tick has stored anything
RelativeInit == [ classes |-> <<>>, relative |-> <<>>, standings |-> <<>> ]

\* lines 59-93: what one tick leaves in minfo.relative
RelativeTick ==
    /\ relative' = RelativeOutput(scene)
    /\ UNCHANGED <<scene, fuelvars, output, pubvars, sysvars>>

(***************************************************************************)
(* What the relative module can read (the api.read.* calls of lines 74-76, *)
(* 101-107 and 119-121, the settings of lines 59-70).  The vehicles of a   *)
(* scene stand gap metres apart along the track from index 0 on; places    *)
(* are a rotation of the index order, counted up or down; classes and best *)
(* lap times follow one of a few patterns.                                 *)
(***************************************************************************)
Vehicles(n) == 0..(Max(n, 1) - 1)

TrackLength == 100
Gaps == {0, 5, 30}
AddFrontSettings == {-1, 0, 1, 61}
AddBehindSettings == {0, 1}
MinTopSettings == 0..6
\* <<max_vehicles_combined_mode, max_vehicles_per_split_others,
\*   max_vehicles_per_split_player>>
LimitSettings == { <<0, 0, 0>>, <<5, 3, 5>>, <<4, 2, 6>> }
ClassPatterns == 1..4
LapTimePatterns == 1..3
Rotations == {0, 1}

\* the vehicles in the garage: none, one of them, or all
GaragePatterns(n) ==
    {{}} \cup { {j} : j \in Vehicles(n) } \cup { Vehicles(n) }

\* class names are numbered in alphabetical order
ClassOf(pattern, i) ==
    CASE pattern = 1 -> 1
      [] pattern = 2 -> 1 + (i % 2)
      [] pattern = 3 -> IF i = 0 THEN 2 ELSE 1
      [] OTHER -> 1 + (i % 3)

\* no lap time set yet, or lap times rising or falling with the index
LapTimeOf(pattern, n, i) ==
    CASE pattern = 1 -> 0
      [] pattern = 2 -> 900 + i
      [] OTHER -> 900 + (n - i)

PlaceOf(n, rot, rev, i) ==
    LET up == ((i + rot) % Max(n, 1)) + 1
    IN  IF rev THEN Max(n, 1) + 1 - up ELSE up

SettingDefault ==
    [ show_vehicle_in_garage_for_race |-> FALSE,
      additional_players_front |-> 0,
      additional_players_behind |-> 0,
      min_top_vehicles |-> 3,
      max_vehicles_combined_mode |-> 5,
      max_vehicles_per_split_others |-> 3,
      max_vehicles_per_split_player |-> 5,
      enable_multi_class_split_mode |-> FALSE ]

BaseScene(n, plr) ==
    [ total_vehicles |-> n,
      plr_index |-> plr,
      track_length |-> TrackLength,
      distance |-> [ i \in Vehicles(n) |-> (i * 5) % TrackLength ],
      in_garage |-> [ i \in Vehicles(n) |-> FALSE ],
      in_race |-> FALSE,
      class_name |-> [ i \in Vehicles(n) |-> 1 ],
      place |-> [ i \in Vehicles(n) |-> i + 1 ],
      best_laptime |-> [ i \in Vehicles(n) |-> 0 ],
      setting |-> SettingDefault ]

SceneDefault == BaseScene(1, 0)

RelativeScene(n, plr, gap, garaged, race, show, front, behind) ==
    [ BaseScene(n, plr) EXCEPT
        !.distance = [ i \in Vehicles(n) |-> (i * gap) % TrackLength ],
        !.in_garage = [ i \in Vehicles(n) |-> i \in garaged ],
        !.in_race = race,
        !.setting = [ @ EXCEPT
            !.show_vehicle_in_garage_for_race = show,
            !.additional_players_front = front,
            !.additional_players_behind = behind ] ]

StandingsScene(n, plr, cpat, bpat, rot, rev, top, lim, split) ==
    [ BaseScene(n, plr) EXCEPT
        !.class_name = [ i \in Vehicles(n) |-> ClassOf(cpat, i) ],
        !.place = [ i \in Vehicles(n) |-> PlaceOf(n, rot, rev, i) ],
        !.best_laptime = [ i \in Vehicles(n) |-> LapTimeOf(bpat, n, i) ],
        !.setting = [ @ EXCEPT
            !.min_top_vehicles = top,
            !.max_vehicles_combined_mode = lim[1],
            !.max_vehicles_per_split_others = lim[2],
            !.max_vehicles_per_split_player = lim[3],
            !.enable_multi_class_split_mode = split ] ]

(***************************************************************************)
(* module_fuel.py: calc_data                                               *)
(***************************************************************************)

\* mutant: the generator begins with recording switched on
GenInitRecording ==
    [ recording |-> TRUE, delayed_save |-> FALSE, validating |-> 0,
      pit_lap |-> FALSE,
      delta_list_last |-> DELTA_DEFAULT, used_last |-> 0,
      delta_list_curr |-> <<DELTA_ZERO>>, delta_list_temp |-> DELTA_DEFAULT,
      amount_start |-> 0, amount_last |-> 0,
      used_curr |-> 0, used_last_raw |-> 0,
      last_lap_stime |-> UnsetLapStart, pos_last |-> 0 ]

\* the generator's locals after lines 101-131, with no persisted history
\* (load_delta returns DELTA_DEFAULT, 0, 0)
GenInit ==
    [ recording |-> FALSE, delayed_save |-> FALSE, validating |-> 0,
      pit_lap |-> FALSE,
      delta_list_last |-> DELTA_DEFAULT, used_last |-> 0,
      delta_list_curr |-> <<DELTA_ZERO>>, delta_list_temp |-> DELTA_DEFAULT,
      amount_start |-> 0, amount_last |-> 0,
      used_curr |-> 0, used_last_raw |-> 0,
      last_lap_stime |-> UnsetLapStart, pos_last |-> 0 ]

\* lines 164-165: lap boundary detected, and the closed lap kept for validation
IsBoundary(g, t) ==
    t.lap_stime > g.last_lap_stime /\ g.last_lap_stime # UnsetLapStart

\* line 152 without the flag's own value: only the reading of this tick
PitLapNowNotSticky(g, t) == t.in_pits

\* lines 152, 156-161: pit flag and usage as they stand when line 164 is reached
PitLapNow(g, t) == g.pit_lap \/ t.in_pits

\* mutant: a refuel is counted as usage too
UsedNowAnyChange(g, t) ==
    IF g.amount_last > t.amount_curr
    THEN g.used_curr + (g.amount_last - t.amount_curr)
    ELSE g.used_curr + (t.amount_curr - g.amount_last)

UsedNow(g, t) ==
    IF g.amount_last > t.amount_curr
    THEN g.used_curr + (g.amount_last - t.amount_curr)
    ELSE g.used_curr

IsMarked(g, t) ==
    IsBoundary(g, t) /\ Len(g.delta_list_curr) > 1 /\ ~PitLapNow(g, t)

\* lines 166-170: the current-lap curve with its end value appended
ClosedCurve(g, t) ==
    Append(g.delta_list_curr,
           << Round6(g.pos_last + EndOffset, 0),
              Round6(UsedNow(g, t), 7),
              Round6(t.lap_stime - g.last_lap_stime, 1) >>)

\* line 172: validating as it stands when line 193 is reached (both calls of
\* api.read.timing.elapsed() in one tick read the same value)
ValidatingNow(g, t) == IF IsMarked(g, t) THEN t.elapsed ELSE g.validating

\* mutant: the last lap time is not looked at
IsInstallingAnyLapTime(validating, t) ==
    /\ validating # 0
    /\ ValidateAfter < t.elapsed - validating
    /\ t.elapsed - validating <= ValidateUntil

\* lines 193-196: validating is both the flag and the time mark
IsInstalling(validating, t) ==
    /\ validating # 0
    /\ ValidateAfter < t.elapsed - validating
    /\ t.elapsed - validating <= ValidateUntil
    /\ t.last_laptime > 0

\* mutant: the position is taken for a desync when it is below the mark
IsDesyncBelow(laptime_curr, pos_curr) ==
    /\ 0 < laptime_curr
    /\ laptime_curr < DesyncLapTime
    /\ pos_curr < DesyncPosition

\* line 182: a position far down the lap in the first second of the lap
IsDesync(laptime_curr, pos_curr) ==
    /\ 0 < laptime_curr
    /\ laptime_curr < DesyncLapTime
    /\ pos_curr > DesyncPosition

\* One updating tick of calc_data (lines 142-203) on the readings t:
\* the generator's locals after the tick.
FuelStep(g, t) ==
    LET laptime_curr == Max(t.current_laptime, 0)
        \* 155-161 realtime fuel consumption
        amount_start1 == IF g.amount_last < t.amount_curr
                         THEN t.amount_curr ELSE g.amount_start
        amount_last1 == IF g.amount_last # t.amount_curr
                        THEN t.amount_curr ELSE g.amount_last
        used1 == UsedNow(g, t)
        \* 163-179 lap start & finish detection
        boundary == IsBoundary(g, t)
        marked == IsMarked(g, t)
        temp1 == IF marked THEN ClosedCurve(g, t) ELSE g.delta_list_temp
        validating1 == ValidatingNow(g, t)
        curr1 == IF boundary THEN <<DELTA_ZERO>> ELSE g.delta_list_curr
        pos_last1 == IF boundary THEN t.pos_curr ELSE g.pos_last
        used_last_raw1 == IF boundary THEN used1 ELSE g.used_last_raw
        used2 == IF boundary THEN 0 ELSE used1
        recording1 == IF boundary THEN laptime_curr < DesyncLapTime
                      ELSE g.recording
        pit_lap1 == IF boundary THEN FALSE ELSE PitLapNow(g, t)
        \* 181-183 distance desync check
        desync == IsDesync(laptime_curr, t.pos_curr)
        pos_curr1 == IF desync THEN 0 ELSE t.pos_curr
        pos_last2 == IF desync THEN 0 ELSE pos_last1
        \* 185-190 update if position value is different & positive
        moved == 0 <= pos_curr1 /\ pos_curr1 # pos_last2
        curr2 == IF moved /\ recording1 /\ pos_curr1 > pos_last2
                 THEN Append(curr1, <<Round6(pos_curr1, 0), Round6(used2, 7)>>)
                 ELSE curr1
        pos_last3 == IF moved THEN pos_curr1 ELSE pos_last2
        \* 192-203 validating
        install == IsInstalling(validating1, t)
        expire == /\ validating1 # 0
                  /\ ~install
                  /\ t.elapsed - validating1 > ValidateUntil
    IN  [ recording |-> recording1,
          delayed_save |-> g.delayed_save \/ install,
          validating |-> IF install \/ expire THEN 0 ELSE validating1,
          pit_lap |-> pit_lap1,
          delta_list_last |-> IF install THEN temp1 ELSE g.delta_list_last,
          used_last |-> IF install THEN used_last_raw1 ELSE g.used_last,
          delta_list_curr |-> curr2,
          delta_list_temp |-> IF install THEN DELTA_DEFAULT ELSE temp1,
          amount_start |-> amount_start1,
          amount_last |-> amount_last1,
          used_curr |-> used2,
          used_last_raw |-> used_last_raw1,
          last_lap_stime |-> t.lap_stime,
          pos_last |-> pos_last3 ]

\* the lap awaiting validation, as the readings tell it: set when a lap is
\* closed and kept, cleared when the lap is installed or once a tick reads a
\* time more than 3 s after the mark
MarkStep(g, m, t) ==
    LET m1 == IF IsMarked(g, t) THEN <<t.elapsed>> ELSE m
    IN  IF m1 = NoMark THEN NoMark
        ELSE IF IsInstalling(ValidatingNow(g, t), t)
                \/ t.elapsed - m1[1] > ValidateUntil
        THEN NoMark ELSE m1

\* the values the telemetry source can show (the api.read.* calls of lines
\* 143-153, 172, 194 and 196)
FuelLevels == { k * LevelSize : k \in 0..MaxLevel }
LapStarts == 1..MaxLapStart
LapTimes == {5, 12}
Positions == {100, 200}
ElapsedTimes == {0, 10, 13, 43}
LastLapTimes == {0, 900}

\* the values the source holds between ticks.  A specification tracks some
\* of them here and draws the others afresh at every tick.
ApiInit ==
    [ state |-> TRUE,
      capacity |-> Max(MaxLevel * LevelSize, 1),
      amount_curr |-> 0, lap_stime |-> 1, current_laptime |-> 12,
      pos_curr |-> 100, in_pits |-> FALSE, elapsed |-> 0, last_laptime |-> 0 ]

\* the lap-start time never runs backwards while one generator lives
LapStartsNow == { s \in LapStarts : s >= gen.last_lap_stime }

\* the tank only drains after the first reading
DrainLevelsNow ==
    { a \in FuelLevels :
        a <= gen.amount_last \/ gen.last_lap_stime = UnsetLapStart }

InBounds(g) ==
    /\ g.used_curr <= MaxUsedLevels * LevelSize
    /\ Len(g.delta_list_curr) <= MaxKnots

\* lines 262-276: the values stored in minfo.fuel that the tick does not
\* derive through the calc helpers
FuelOutput(g, t) ==
    [ capacity |-> t.capacity,
      amountStart |-> g.amount_start,
      amountCurrent |-> t.amount_curr,
      lastLapConsumption |-> g.used_last_raw ]

\* minfo.fuel before the first tick has stored anything
OutputInit ==
    [ capacity |-> 0, amountStart |-> 0, amountCurrent |-> 0,
      lastLapConsumption |-> 0 ]

\* both threads between ticks, nothing read yet
PubInit ==
    [ fuel_pc |-> 0, fuel_new |-> OutputInit, fuel_old |-> OutputInit,
      rel_pc |-> 0, rel_new |-> RelativeInit, rel_old |-> RelativeInit ]

SeenInit == [ fuel |-> OutputInit, relative |-> RelativeInit ]

\* gen_calc_fuel.send(True): one updating tick on the readings t
FuelTick(t) ==
    LET g == FuelStep(gen, t)
    IN  /\ InBounds(g)
        /\ gen' = g
        /\ mark' = MarkStep(gen, mark, t)
        /\ output' = FuelOutput(g, t)
        /\ UNCHANGED <<api, relvars, pubvars, sysvars>>

\* the simulator moves the session clock, which never runs backwards
ApiElapsed ==
    /\ \E v \in ElapsedTimes :
          v > api.elapsed /\ api' = [api EXCEPT !.elapsed = v]
    /\ UNCHANGED <<gen, mark, relvars, output, pubvars, sysvars>>

\* the simulator reports a last lap time
ApiLastLapTime ==
    /\ \E v \in LastLapTimes : api' = [api EXCEPT !.last_laptime = v]
    /\ UNCHANGED <<gen, mark, relvars, output, pubvars, sysvars>>

\* the car enters or leaves the pits
ApiInPits ==
    /\ \E v \in BOOLEAN : api' = [api EXCEPT !.in_pits = v]
    /\ UNCHANGED <<gen, mark, relvars, output, pubvars, sysvars>>

\* the fuel gauge moves
ApiFuel ==
    /\ \E v \in FuelLevels : api' = [api EXCEPT !.amount_curr = v]
    /\ UNCHANGED <<gen, mark, relvars, output, pubvars, sysvars>>

(***************************************************************************)
(* module_fuel.py: the consumption file (save_delta, load_delta).  A file  *)
(* holds rows of fields and a field is a string of characters: the digits  *)
(* 0..9, MinusSign, and OtherChar for any character no number is written   *)
(* with.  The file can be read and written ("rw"), only read ("ro") or     *)
(* neither ("none").                                                       *)
(***************************************************************************)
RECURSIVE Digits(_)
Digits(n) == IF n < 10 THEN <<n>> ELSE Append(Digits(n \div 10), n % 10)

\* the text csv.writer writes for a number
FormatNumber(n) == IF n < 0 THEN <<MinusSign>> \o Digits(-n) ELSE Digits(n)

\* lines 283-284: writerows(dataset)
FormatRows(dataset) ==
    [ i \in 1..Len(dataset) |->
        [ k \in 1..Len(dataset[i]) |-> FormatNumber(dataset[i][k]) ] ]

IsDigits(f) == Len(f) > 0 /\ \A i \in 1..Len(f) : f[i] \in 0..9

\* whether csv.reader with QUOTE_NONNUMERIC can convert the field
IsNumber(f) ==
    \/ IsDigits(f)
    \/ Len(f) > 1 /\ f[1] = MinusSign /\ IsDigits(Tail(f))

RECURSIVE DigitsValue(_)
DigitsValue(f) ==
    IF f = <<>> THEN 0
    ELSE 10 * DigitsValue(SubSeq(f, 1, Len(f) - 1)) + f[Len(f)]

\* the number csv.reader makes of a field
ParseNumber(f) ==
    IF f[1] = MinusSign THEN 0 - DigitsValue(Tail(f)) ELSE DigitsValue(f)

\* line 291: list(csv.reader(csvfile, quoting=csv.QUOTE_NONNUMERIC))
RowsAreNumbers(rows) ==
    \A i \in 1..Len(rows) : \A k \in 1..Len(rows[i]) : IsNumber(rows[i][k])

ParseRows(rows) ==
    [ i \in 1..Len(rows) |->
        [ k \in 1..Len(rows[i]) |-> ParseNumber(rows[i][k]) ] ]

\* val.delta_list (validator.py): corrupt entries, rows that are not
\* (position, used) or (position, used, lapTime), are filtered out
IsEntry(row) == Len(row) = 2 \/ Len(row) = 3

delta_list(temp_list) == SelectSeq(temp_list, IsEntry)

\* the consumption file before anything was saved for the combo
DiskInit ==
    [ exists |-> FALSE, mode |-> "rw", rows |-> <<>>,
      writing |-> FALSE, calls |-> 0 ]

\* save_delta is entered: calls counts the entries modulo 2
SaveCalled(d) == [ d EXCEPT !.calls = 1 - @ ]

\* lines 281-282: whether save_delta opens the file
SaveOpens(dataset) == Len(dataset) >= MinRows

\* mutant: the third field of a row is not written
SavedWithoutLapTime(d, dataset) ==
    [ d EXCEPT !.exists = TRUE,
               !.rows = FormatRows([ i \in 1..Len(dataset) |->
                                       SubSeq(dataset[i], 1, 2) ]),
               !.writing = FALSE ]

\* lines 282-284: the file after save_delta has written the dataset
Saved(d, dataset) ==
    [ d EXCEPT !.exists = TRUE, !.rows = FormatRows(dataset),
               !.writing = FALSE ]

\* lines 279-284: save_delta as one step; raised tells that open() raised
\* PermissionError
save_delta(d, dataset) ==
    IF ~SaveOpens(dataset) THEN [ disk |-> SaveCalled(d), raised |-> FALSE ]
    ELSE IF d.mode # "rw" THEN [ disk |-> SaveCalled(d), raised |-> TRUE ]
    ELSE [ disk |-> Saved(SaveCalled(d), dataset), raised |-> FALSE ]

\* lines 300-304: what load_delta returns after a caught exception
LoadDefault(d) ==
    [ lastlist |-> DELTA_DEFAULT, used_last |-> 0, laptime_last |-> 0,
      disk |-> d, raised |-> FALSE ]

\* lines 287-305: load_delta; raised tells that an exception left it
load_delta(d) ==
    IF ~d.exists THEN LoadDefault(d)
    ELSE IF d.mode = "none" THEN [ LoadDefault(d) EXCEPT !.raised = TRUE ]
    ELSE IF ~RowsAreNumbers(d.rows) THEN LoadDefault(d)
    ELSE LET temp_list == ParseRows(d.rows)
             lastlist == delta_list(temp_list)
         IN  IF lastlist = <<>> \/ Len(Last(lastlist)) < 3
             THEN LoadDefault(d)
             ELSE LET save == IF Len(temp_list) # Len(lastlist)
                              THEN save_delta(d, lastlist)
                              ELSE [ disk |-> d, raised |-> FALSE ]
                  IN  [ lastlist |-> lastlist,
                        used_last |-> Last(lastlist)[2],
                        laptime_last |-> Last(lastlist)[3],
                        disk |-> save.disk,
                        raised |-> save.raised ]

\* lines 101-131: the generator's locals when its first yield is reached
GenLoaded(ld) ==
    [ GenInit EXCEPT !.delta_list_last = ld.lastlist,
                     !.used_last = ld.used_last,
                     !.used_last_raw = ld.used_last ]

\* no function is being called
NoCall == [ op |-> "none", args |-> <<>>, out |-> <<>> ]

\* a thread that has just entered update_data (lines 52-53)
\* last_tick tells what the thread's last tick found: telemetry "active"
\* or "idle", "none" before the first tick
ThreadInit ==
    [ pc |-> "wait", reset |-> FALSE, update_interval |-> "active",
      last_tick |-> "none" ]

\* the fuel module's thread has been started; the relative module has been
\* constructed and not started (_base.py lines 43-44)
PollInit ==
    [ fuel |-> ThreadInit,
      relative |-> [ event |-> FALSE, stopped |-> TRUE, threads |-> <<>> ] ]

InitFuel ==
    /\ gen = GenInit
    /\ api = ApiInit
    /\ mark = NoMark
    /\ scene = SceneDefault
    /\ relative = RelativeInit
    /\ output = OutputInit /\ pub = PubInit /\ seen = SeenInit
    /\ poll = PollInit /\ disk = DiskInit /\ call = NoCall

(***************************************************************************)
(* SpecLap: laps driven on a draining tank.  The clock, the last lap time  *)
(* and the pit flag are tracked; fuel, lap start, lap time and position    *)
(* are drawn at every tick.                                                *)
(***************************************************************************)
LapTick ==
    \E a \in DrainLevelsNow, s \in LapStartsNow, l \in LapTimes,
       p \in Positions :
        FuelTick([api EXCEPT !.amount_curr = a, !.lap_stime = s,
                             !.current_laptime = l, !.pos_curr = p])

NextLap ==
    \/ LapTick
    \/ ApiElapsed
    \/ ApiLastLapTime
    \/ ApiInPits

SpecLap == InitFuel /\ [][NextLap]_vars

(***************************************************************************)
(* SpecUsage: every sequence of fuel readings (drain and refuel) over the  *)
(* laps.  The gauge is tracked; lap start and lap time are drawn at every *)
(* tick, the car standing at one position.                                 *)
(***************************************************************************)
UsageTick ==
    \E s \in LapStartsNow, l \in LapTimes :
        FuelTick([api EXCEPT !.lap_stime = s, !.current_laptime = l])

NextUsage ==
    \/ UsageTick
    \/ ApiFuel

SpecUsage == InitFuel /\ [][NextUsage]_vars

\* the relative module alone, started on any scene
InitRelative ==
    /\ \E n \in 0..MaxVehicles :
         \E plr \in Vehicles(n), gap \in Gaps, garaged \in GaragePatterns(n),
            race \in BOOLEAN, show \in BOOLEAN,
            front \in AddFrontSettings, behind \in AddBehindSettings :
            scene = RelativeScene(n, plr, gap, garaged, race, show,
                                  front, behind)
    /\ relative = RelativeInit
    /\ gen = GenInit /\ api = ApiInit /\ mark = NoMark
    /\ output = OutputInit /\ pub = PubInit /\ seen = SeenInit
    /\ poll = PollInit /\ disk = DiskInit /\ call = NoCall

NextRelative == RelativeTick

SpecRelative == InitRelative /\ [][NextRelative]_vars

InitStandings ==
    /\ \E n \in 1..MaxVehicles :
         \E plr \in Vehicles(n), cpat \in ClassPatterns,
            bpat \in LapTimePatterns, rot \in Rotations, rev \in BOOLEAN,
            top \in MinTopSettings, lim \in LimitSettings,
            split \in BOOLEAN :
            scene = StandingsScene(n, plr, cpat, bpat, rot, rev, top, lim,
                                   split)
    /\ relative = RelativeInit
    /\ gen = GenInit /\ api = ApiInit /\ mark = NoMark
    /\ output = OutputInit /\ pub = PubInit /\ seen = SeenInit
    /\ poll = PollInit /\ disk = DiskInit /\ call = NoCall

NextStandings == RelativeTick

SpecStandings == InitStandings /\ [][NextStandings]_vars

(***************************************************************************)
(* SpecPublish: both module threads and a reader thread, one store or one  *)
(* read at a time.  A tick first computes its values (module_fuel.py lines *)
(* 142-260, module_relative.py lines 59-88), then stores them one by one   *)
(* in the shared object (module_fuel.py lines 262-276, module_relative.py  *)
(* lines 91-93); no lock is held.  The reader is given the best case: it   *)
(* reads all values of both objects in one step.                           *)
(***************************************************************************)
FuelFields ==
    << "capacity", "amountStart", "amountCurrent", "lastLapConsumption" >>
RelativeFields == << "classes", "relative", "standings" >>

PublishScenes == { BaseScene(1, 0), BaseScene(2, 0), BaseScene(2, 1) }

\* module_fuel.py lines 142-260: the fuel thread computes a tick
FuelCompute ==
    /\ pub.fuel_pc = 0
    /\ \E a \in FuelLevels :
          LET t == [ api EXCEPT !.amount_curr = a ]
              g == FuelStep(gen, t)
          IN  /\ InBounds(g)
              /\ gen' = g
              /\ mark' = MarkStep(gen, mark, t)
              /\ pub' = [ pub EXCEPT !.fuel_pc = 1,
                                     !.fuel_new = FuelOutput(g, t),
                                     !.fuel_old = output ]
    /\ UNCHANGED <<api, relvars, output, seen, sysvars>>

\* module_fuel.py lines 262-276: the fuel thread stores one value
FuelStore ==
    /\ pub.fuel_pc > 0
    /\ LET field == FuelFields[pub.fuel_pc]
       IN  output' = [ output EXCEPT ![field] = pub.fuel_new[field] ]
    /\ pub' = [ pub EXCEPT
                  !.fuel_pc = IF @ = Len(FuelFields) THEN 0 ELSE @ + 1 ]
    /\ UNCHANGED <<fuelvars, relvars, seen, sysvars>>

\* module_relative.py lines 59-88: the relative thread computes a tick
RelativeCompute ==
    /\ pub.rel_pc = 0
    /\ pub' = [ pub EXCEPT !.rel_pc = 1,
                           !.rel_new = RelativeOutput(scene),
                           !.rel_old = relative ]
    /\ UNCHANGED <<fuelvars, relvars, output, seen, sysvars>>

\* module_relative.py lines 91-93: the relative thread stores one list
RelativeStore ==
    /\ pub.rel_pc > 0
    /\ LET field == RelativeFields[pub.rel_pc]
       IN  relative' = [ relative EXCEPT ![field] = pub.rel_new[field] ]
    /\ pub' = [ pub EXCEPT
                  !.rel_pc = IF @ = Len(RelativeFields) THEN 0 ELSE @ + 1 ]
    /\ UNCHANGED <<fuelvars, scene, output, seen, sysvars>>

\* vehicles join, leave or change places between two reads of the telemetry
SceneChange ==
    /\ \E sc \in PublishScenes : scene' = sc
    /\ UNCHANGED <<fuelvars, relative, output, pubvars, sysvars>>

\* the reader thread reads minfo.fuel and minfo.relative
Read ==
    /\ seen' = [ fuel |-> output, relative |-> relative ]
    /\ UNCHANGED <<fuelvars, relvars, output, pub, sysvars>>

NextPublish ==
    \/ FuelCompute \/ FuelStore
    \/ RelativeCompute \/ RelativeStore
    \/ SceneChange
    \/ Read

SpecPublish == InitFuel /\ [][NextPublish]_vars

(***************************************************************************)
(* SpecStore: a curve is saved and loaded again.  The curves have          *)
(* MinRows - 1 to MaxRows rows, the last with a lap time; positions and    *)
(* usages rise along the curve by a fixed step from a base value.          *)
(***************************************************************************)
CurveSteps == {1, 100}
UsedSteps == {0, 7, LevelSize}
UsedBases == {-5, 0}
CurveLapTimes == {0, 905}

Curve(n, pstep, ustep, ubase, laptime) ==
    [ i \in 1..n |->
        IF i < n THEN << (i - 1) * pstep, ubase + (i - 1) * ustep >>
        ELSE << (i - 1) * pstep, ubase + (i - 1) * ustep, laptime >> ]

InitStore ==
    /\ \E n \in (MinRows - 1)..MaxRows, pstep \in CurveSteps,
          ustep \in UsedSteps, ubase \in UsedBases,
          laptime \in CurveLapTimes :
          call = [ op |-> "curve",
                   args |-> << Curve(n, pstep, ustep, ubase, laptime) >>,
                   out |-> <<>> ]
    /\ gen = GenInit /\ api = ApiInit /\ mark = NoMark
    /\ scene = SceneDefault /\ relative = RelativeInit
    /\ output = OutputInit /\ pub = PubInit /\ seen = SeenInit
    /\ poll = PollInit /\ disk = DiskInit

\* save_delta(dataset, filepath, combo, extension)
StoreSave ==
    /\ call.op = "curve"
    /\ disk' = save_delta(disk, call.args[1]).disk
    /\ call' = [ call EXCEPT !.op = "saved" ]
    /\ UNCHANGED <<fuelvars, relvars, output, pubvars, poll>>

\* load_delta(filepath, combo, extension)
StoreLoad ==
    /\ call.op = "saved"
    /\ LET ld == load_delta(disk)
       IN  /\ call' = [ call EXCEPT
                          !.op = "loaded",
                          !.out = << ld.lastlist, ld.used_last,
                                     ld.laptime_last >> ]
           /\ disk' = ld.disk
    /\ UNCHANGED <<fuelvars, relvars, output, pubvars, poll>>

NextStore == StoreSave \/ StoreLoad

SpecStore == InitStore /\ [][NextStore]_vars

(***************************************************************************)
(* SpecSession: the generator over every sequence of readings of a         *)
(* session that can restart: the lap-start time moves both ways, and the   *)
(* position can read far down the lap when a lap has just begun.  The      *)
(* session clock stands, so no lap is validated.  call keeps the readings  *)
(* of the last tick.                                                       *)
(***************************************************************************)
SessionLapStarts == {1, 2}
SessionPositions == Positions \cup { DesyncPosition + 100 }

\* a full tank or an empty one; the tank only drains after the first reading
SessionLevelsNow ==
    { a \in {0, LevelSize} :
        a <= gen.amount_last \/ gen.last_lap_stime = UnsetLapStart }

SessionTick ==
    \E a \in SessionLevelsNow, s \in SessionLapStarts, l \in LapTimes,
       p \in SessionPositions :
        LET t == [api EXCEPT !.amount_curr = a, !.lap_stime = s,
                             !.current_laptime = l, !.pos_curr = p]
            g == FuelStep(gen, t)
        IN  /\ InBounds(g)
            /\ gen' = g
            /\ mark' = MarkStep(gen, mark, t)
            /\ output' = FuelOutput(g, t)
            /\ call' = [ op |-> "send", args |-> << t >>, out |-> <<>> ]
            /\ UNCHANGED <<api, relvars, pubvars, poll, disk>>

NextSession ==
    \/ SessionTick
    \/ ApiInPits

SpecSession == InitFuel /\ [][NextSession]_vars

(***************************************************************************)
(* SpecFuelLoop: the fuel module's update thread (module_fuel.py lines     *)
(* 50-89) over a session.  The car drives lap after lap, a reading every   *)
(* 100 m and every second; a tick reads the reading of the tick before or  *)
(* the next one.  Telemetry goes active and idle at any time, and the      *)
(* file's permissions change at any time.  The thread waits ("wait"), is   *)
(* inside save_delta with the file open ("save"), or has ended with an     *)
(* exception that left update_data ("dead").                               *)
(***************************************************************************)
DriveStep == 100
DriveLapEnd == 900
DriveTick == 10
DriveLapTime == 900
DriveDrain == 7

\* the first reading of the session
DriveInit ==
    [ ApiInit EXCEPT !.amount_curr = LevelSize, !.pos_curr = 0,
                     !.current_laptime = 5, !.elapsed = DriveTick ]

\* the session goes on until the car is DriveStep into lap MaxLapStart
DriveGoesOn(a) == a.lap_stime < MaxLapStart \/ a.pos_curr < DriveStep

\* the reading after reading a
DriveNext(a) ==
    IF a.pos_curr < DriveLapEnd
    THEN [ a EXCEPT !.pos_curr = @ + DriveStep,
                    !.current_laptime = 12,
                    !.elapsed = @ + DriveTick,
                    !.amount_curr = @ - DriveDrain ]
    ELSE [ a EXCEPT !.lap_stime = @ + 1,
                    !.pos_curr = 0,
                    !.current_laptime = 5,
                    !.elapsed = @ + DriveTick,
                    !.last_laptime = DriveLapTime,
                    !.amount_curr = @ - DriveDrain ]

\* the readings a tick can find
DriveReadings(a) == {a} \cup { DriveNext(b) : b \in { c \in {a} : DriveGoesOn(c) } }

\* the files the session can start with: none; a curve of MinRows rows; a
\* longer curve with a one-field row in it; a short curve with a one-field
\* row in it; a row that is no number; an empty file
GoodFile(n) == [ DiskInit EXCEPT !.exists = TRUE,
                                 !.rows = FormatRows(Curve(n, 100, 7, 0, 905)) ]

WithCorruptRow(d) ==
    [ d EXCEPT !.rows = << @[1], << FormatNumber(5) >> >> \o Tail(@) ]

WithOtherChar(d) == [ d EXCEPT !.rows[1][1] = << OtherChar >> ]

DiskStarts ==
    { DiskInit,
      GoodFile(MinRows),
      WithCorruptRow(GoodFile(MinRows + 1)),
      WithCorruptRow(GoodFile(3)),
      WithOtherChar(GoodFile(MinRows)),
      [ DiskInit EXCEPT !.exists = TRUE ] }

DiskModes == { "rw", "ro", "none" }

InitFuelLoop ==
    /\ gen = GenInit /\ mark = NoMark
    /\ \E on \in BOOLEAN : api = [ DriveInit EXCEPT !.state = on ]
    /\ \E d \in DiskStarts, m \in DiskModes : disk = [ d EXCEPT !.mode = m ]
    /\ scene = SceneDefault /\ relative = RelativeInit
    /\ output = OutputInit /\ pub = PubInit /\ seen = SeenInit
    /\ poll = PollInit /\ call = NoCall

\* lines 56-69: the tick that finds telemetry active after idle: the
\* generator is created, run to its first yield (load_delta) and sent True
\* twice
FuelActivate ==
    /\ poll.fuel.pc = "wait" /\ api.state /\ ~poll.fuel.reset
    /\ LET ld == load_delta(disk)
       IN  /\ disk' = ld.disk
           /\ IF ld.raised
              THEN /\ poll' = [ poll EXCEPT !.fuel.pc = "dead",
                                            !.fuel.reset = TRUE ]
                   /\ UNCHANGED <<gen, api, mark, output>>
              ELSE \E t \in DriveReadings(api) :
                     LET g0 == GenLoaded(ld)
                         g1 == FuelStep(g0, api)
                         g2 == FuelStep(g1, t)
                     IN  /\ gen' = g2
                         /\ mark' = MarkStep(g1, MarkStep(g0, NoMark, api), t)
                         /\ output' = FuelOutput(g2, t)
                         /\ api' = t
                         /\ poll' = [ poll EXCEPT
                                        !.fuel.reset = TRUE,
                                        !.fuel.update_interval = "active",
                                        !.fuel.last_tick = "active" ]
    /\ UNCHANGED <<relvars, pubvars, call>>

\* lines 56-57 and 69: a tick that finds telemetry still active
FuelActive ==
    /\ poll.fuel.pc = "wait" /\ api.state /\ poll.fuel.reset
    /\ \E t \in DriveReadings(api) :
          LET g == FuelStep(gen, t)
          IN  /\ gen' = g
              /\ mark' = MarkStep(gen, mark, t)
              /\ output' = FuelOutput(g, t)
              /\ api' = t
    /\ poll' = [ poll EXCEPT !.fuel.last_tick = "active" ]
    /\ UNCHANGED <<relvars, pubvars, disk, call>>

\* lines 136-140 and 281-282: save_delta has opened the file for writing
SaveOpened(d) ==
    [ d EXCEPT !.exists = TRUE, !.rows = <<>>, !.writing = TRUE ]

\* lines 136-139: sent False, the generator saves whether or not a lap
\* was validated
SaveCheckAlways(g) == TRUE

\* lines 136-139: sent False, the generator saves if a lap was validated
SaveCheck(g) == g.delayed_save

\* lines 84-89: the tick that finds telemetry idle after active: the
\* generator is sent False and saves if a lap was validated
FuelDeactivate ==
    /\ poll.fuel.pc = "wait" /\ ~api.state /\ poll.fuel.reset
    /\ LET saves == SaveCheck(gen)
           opens == saves /\ SaveOpens(gen.delta_list_last)
           raised == opens /\ disk.mode # "rw"
       IN  /\ disk' = IF ~saves THEN disk
                      ELSE IF opens /\ ~raised
                      THEN SaveOpened(SaveCalled(disk))
                      ELSE SaveCalled(disk)
           /\ poll' = [ poll EXCEPT
                          !.fuel.reset = FALSE,
                          !.fuel.update_interval = "idle",
                          !.fuel.last_tick = "idle",
                          !.fuel.pc = IF raised THEN "dead"
                                      ELSE IF opens THEN "save"
                                      ELSE "wait" ]
    /\ UNCHANGED <<fuelvars, relvars, output, pubvars, call>>

\* lines 283-284: the rows are written and the file is closed; the
\* generator goes back to its yield and the thread to its wait
FuelSaveWrite ==
    /\ poll.fuel.pc = "save"
    /\ disk' = Saved(disk, gen.delta_list_last)
    /\ poll' = [ poll EXCEPT !.fuel.pc = "wait" ]
    /\ UNCHANGED <<fuelvars, relvars, output, pubvars, call>>

\* lines 55-56 and 84-85: a tick that finds telemetry still idle
FuelIdle ==
    /\ poll.fuel.pc = "wait" /\ ~api.state /\ ~poll.fuel.reset
    /\ poll' = [ poll EXCEPT !.fuel.last_tick = "idle" ]
    /\ UNCHANGED <<fuelvars, relvars, output, pubvars, disk, call>>

\* the player goes on track or leaves it
ApiState ==
    /\ api' = [ api EXCEPT !.state = ~@ ]
    /\ UNCHANGED <<gen, mark, relvars, output, pubvars, sysvars>>

\* the file's permissions are changed
DiskChmod ==
    /\ ~disk.writing
    /\ \E m \in DiskModes : disk' = [ disk EXCEPT !.mode = m ]
    /\ UNCHANGED <<fuelvars, relvars, output, pubvars, poll, call>>

NextFuelLoop ==
    \/ FuelActivate \/ FuelActive \/ FuelDeactivate \/ FuelSaveWrite
    \/ FuelIdle
    \/ ApiState \/ DiskChmod

SpecFuelLoop == InitFuelLoop /\ [][NextFuelLoop]_vars

(***************************************************************************)
(* SpecPoll: a module's update thread from start() to stop() (_base.py     *)
(* lines 55-68), with the relative module's loop (module_relative.py lines *)
(* 45-98) as the thread's body.  A thread is at event.wait ("wait"), in a  *)
(* wait that a set() has released ("woken"), in the loop's body ("tick")   *)
(* or has left update_data ("done").  start() and                          *)
(* stop() are calls of the main thread; MaxThreads threads are started at  *)
(* most.  SpecPollFair adds that a wait returns and that a tick ends.      *)
(***************************************************************************)
InitPoll ==
    /\ gen = GenInit /\ mark = NoMark
    /\ \E on \in BOOLEAN : api = [ ApiInit EXCEPT !.state = on ]
    /\ \E sc \in PublishScenes : scene = sc
    /\ relative = RelativeInit
    /\ output = OutputInit /\ pub = PubInit /\ seen = SeenInit
    /\ poll = PollInit /\ disk = DiskInit /\ call = NoCall

Threads == 1..Len(poll.relative.threads)

\* _base.py lines 55-61
ModuleStart ==
    /\ poll.relative.stopped
    /\ Len(poll.relative.threads) < MaxThreads
    /\ poll' = [ poll EXCEPT !.relative.stopped = FALSE,
                             !.relative.event = FALSE,
                             !.relative.threads = Append(@, ThreadInit) ]
    /\ UNCHANGED <<fuelvars, relvars, output, pubvars, disk, call>>

\* _base.py lines 63-68; Event.set() releases the threads that are in
\* their wait ("woken"): their wait returns True whatever becomes of the
\* flag afterwards
ModuleStop ==
    /\ ~poll.relative.stopped
    /\ poll' = [ poll EXCEPT
                   !.relative.event = TRUE,
                   !.relative.stopped = TRUE,
                   !.relative.threads =
                       [ i \in 1..Len(@) |->
                           IF @[i].pc = "wait"
                           THEN [ @[i] EXCEPT !.pc = "woken" ]
                           ELSE @[i] ] ]
    /\ UNCHANGED <<fuelvars, relvars, output, pubvars, disk, call>>

\* mutant: the wait only sleeps and returns False
WaitReturnsFalse(event) == FALSE

\* Event.wait(update_interval) returns the flag: True as soon as the event
\* is set, False when the interval has passed with the event not set
WaitReturns(event) == event

\* module_relative.py line 52: the wait of thread i returns
RelativeWake(i) ==
    /\ i \in Threads
    /\ poll.relative.threads[i].pc \in { "wait", "woken" }
    /\ poll' = [ poll EXCEPT !.relative.threads[i].pc =
                    IF @ = "woken" \/ WaitReturns(poll.relative.event)
                    THEN "done" ELSE "tick" ]
    /\ UNCHANGED <<fuelvars, relvars, output, pubvars, disk, call>>

\* module_relative.py lines 60-93: what an active tick publishes, for each
\* scene it can read
PollOutput == [ sc \in PublishScenes |-> RelativeOutput(sc) ]

\* module_relative.py lines 53-98: the body of the loop in thread i
RelativePoll(i) ==
    /\ i \in Threads
    /\ poll.relative.threads[i].pc = "tick"
    /\ LET th == poll.relative.threads[i]
           after == IF api.state
                    THEN [ pc |-> "wait", reset |-> TRUE,
                           update_interval |-> "active",
                           last_tick |-> "active" ]
                    ELSE [ pc |-> "wait", reset |-> FALSE,
                           update_interval |-> IF th.reset THEN "idle"
                                               ELSE th.update_interval,
                           last_tick |-> "idle" ]
       IN  /\ poll' = [ poll EXCEPT !.relative.threads[i] = after ]
           /\ relative' = IF api.state THEN PollOutput[scene]
                          ELSE relative
    /\ UNCHANGED <<fuelvars, scene, output, pubvars, disk, call>>

NextPoll ==
    \/ ModuleStart \/ ModuleStop
    \/ \E i \in 1..MaxThreads : RelativeWake(i) \/ RelativePoll(i)
    \/ ApiState
    \/ SceneChange

SpecPoll == InitPoll /\ [][NextPoll]_vars

SpecPollFair ==
    /\ SpecPoll
    /\ \A i \in 1..MaxThreads :
          WF_vars(RelativeWake(i)) /\ WF_vars(RelativePoll(i))

(***************************************************************************)
(* SpecCalculator: FuelCalculator.run_calculation (fuel_calculator.py      *)
(* lines 659-702) on whole litres, laps and seconds.  call holds the       *)
(* inputs and the loop's locals; a pit count is a fraction << n, d >> with *)
(* d > 0.  The loop is followed for MaxIterations iterations at most.      *)
(***************************************************************************)
FloorOf(q) == q[1] \div q[2]
CeilOf(q) == -((-q[1]) \div q[2])

\* calc.time_type_full_laps_remain(0, laptime, seconds): the laps that
\* begin in the time that is left
time_type_full_laps_remain(laptime, seconds) ==
    IF seconds <= 0 THEN 0 ELSE CeilOf(<< seconds, laptime >>)

\* calc.total_fuel_needed(laps, consumption, 0)
total_fuel_needed(laps, consumption, amount) == laps * consumption - amount

\* calc.end_stint_fuel(amount, 0, consumption): what is left in the tank
\* after the last whole lap of the stint
end_stint_fuel(amount, consumption) == amount % consumption

\* calc.end_stint_pit_counts(needed, capacity_remain): the pit stops as a
\* fraction; the callers round it
end_stint_pit_counts(needed, capacity_remain) ==
    IF capacity_remain = 0 THEN << 0, 1 >> ELSE << needed, capacity_remain >>

\* lines 661-663
CalcLocalsInit(in) ==
    [ loop_counts |-> LoopLimit, estimate_pit_counts |-> << 0, 1 >>,
      minimum_pit_counts |-> 0, total_race_laps |-> in.total_race_laps,
      iterations |-> 0 ]

\* lines 667-702: one pass of the loop body; running tells whether the
\* loop goes on
CalcPass(in, loc) ==
    LET minimum == CeilOf(loc.estimate_pit_counts)
        laps == IF in.total_race_seconds # 0
                THEN in.total_formation_laps
                     + time_type_full_laps_remain(in.laptime,
                          in.total_race_seconds
                          - minimum * in.average_pit_seconds)
                ELSE in.total_formation_laps + loc.total_race_laps
        total_need_full == total_fuel_needed(laps, in.consumption, 0)
        amount_refuel == total_need_full - in.tank_capacity
        amount_curr == Min(total_need_full, in.tank_capacity)
        end_fuel == end_stint_fuel(amount_curr, in.consumption)
        estimate == end_stint_pit_counts(amount_refuel,
                                         in.tank_capacity - end_fuel)
        \* minimum < estimate, as fractions, and minimum = floor(estimate)
        last_loop == /\ minimum * estimate[2] < estimate[1]
                     /\ minimum = FloorOf(estimate)
        counts == IF last_loop THEN 1 ELSE loc.loop_counts - 1
        break == minimum = CeilOf(estimate)
    IN  [ locals |-> [ loop_counts |-> counts,
                       estimate_pit_counts |-> estimate,
                       minimum_pit_counts |-> minimum,
                       total_race_laps |-> laps,
                       iterations |-> loc.iterations + 1 ],
          running |-> ~break /\ counts # 0 ]

\* what the spin boxes can hold when update_input calls run_calculation
\* (lines 646-650): a lap time, a capacity and a consumption above 0, and a
\* race length in minutes or in laps
CalcInputs(tank, used, seconds, laps, formation, pit) ==
    [ tank_capacity |-> tank, consumption |-> used,
      total_race_seconds |-> seconds, total_race_laps |-> laps,
      total_formation_laps |-> formation, average_pit_seconds |-> pit,
      laptime |-> 90 ]

InitCalculator ==
    /\ gen = GenInit /\ api = ApiInit /\ mark = NoMark
    /\ scene = SceneDefault /\ relative = RelativeInit
    /\ output = OutputInit /\ pub = PubInit /\ seen = SeenInit
    /\ poll = PollInit /\ disk = DiskInit
    /\ \E tank \in {10, 50}, used \in {4, 7}, seconds \in {0, 1800},
          laps \in {0, 1, 20}, formation \in {0, 2}, pit \in {0, 60} :
          /\ seconds + laps # 0
          /\ LET in == CalcInputs(tank, used, seconds, laps, formation, pit)
             IN  call = [ op |-> "run_calculation", args |-> << in >>,
                          out |-> << CalcLocalsInit(in) >> ]

\* lines 666-702: the loop runs its body once more
CalcLoop ==
    /\ call.op = "run_calculation"
    /\ call.out[1].iterations < MaxIterations
    /\ LET pass == CalcPass(call.args[1], call.out[1])
       IN  call' = [ call EXCEPT
                       !.op = IF pass.running THEN "run_calculation"
                              ELSE "returned",
                       !.out = << pass.locals >> ]
    /\ UNCHANGED <<fuelvars, relvars, output, pubvars, poll, disk>>

NextCalculator == CalcLoop

SpecCalculator == InitCalculator /\ [][NextCalculator]_vars

(***************************************************************************)
(* SpecPlaces: create_reference_place on the arguments the module calls it *)
(* with (module_relative.py lines 65-85, 238-264): the top band and the    *)
(* limits come from the settings through min_top_vehicles_in_class and     *)
(* max_vehicles_in_class; a class with the player in it is called with the *)
(* player's place, any other class with place 0.                           *)
(***************************************************************************)
InitPlaces ==
    /\ gen = GenInit /\ api = ApiInit /\ mark = NoMark
    /\ scene = SceneDefault /\ relative = RelativeInit
    /\ output = OutputInit /\ pub = PubInit /\ seen = SeenInit
    /\ poll = PollInit /\ disk = DiskInit
    /\ \E setting \in MinTopSettings, max_veh \in 0..MaxPlaces,
          veh_total \in 1..MaxPlaces, plr_place \in 0..MaxPlaces :
          LET min_top_veh == min_top_vehicles_in_class(setting)
              veh_limit == max_vehicles_in_class(max_veh, min_top_veh,
                              IF plr_place = 0 THEN 0 ELSE 2)
          IN  /\ plr_place <= veh_total
              /\ call = [ op |-> "create_reference_place",
                          args |-> << min_top_veh, veh_total, plr_place,
                                      veh_limit >>,
                          out |-> <<>> ]

\* line 262: the call returns
PlacesReturn ==
    /\ call.op = "create_reference_place"
    /\ call' = [ call EXCEPT
                   !.op = "returned",
                   !.out = create_reference_place(call.args[1], call.args[2],
                                                  call.args[3], call.args[4]) ]
    /\ UNCHANGED <<fuelvars, relvars, output, pubvars, poll, disk>>

NextPlaces == PlacesReturn

SpecPlaces == InitPlaces /\ [][NextPlaces]_vars

\* a step of the generator (the source's values stand still)
IsTick == api' = api

\* the tick detects a lap boundary (every tick leaves the lap-start time it
\* read in last_lap_stime)
DetectsBoundary ==
    /\ IsTick
    /\ gen'.last_lap_stime > gen.last_lap_stime
    /\ gen.last_lap_stime # UnsetLapStart

\* the tick closes a lap and keeps it for validation: the lap has at least
\* two knots and is no pit in/out lap
ClosesLap ==
    /\ DetectsBoundary
    /\ Len(gen.delta_list_curr) > 1
    /\ ~(gen.pit_lap \/ api.in_pits)

InWindow(timer) == ValidateAfter < timer /\ timer <= ValidateUntil

(***************************************************************************)
(* Claims                                                                  *)
(***************************************************************************)

\* C1: on every tick on which a closed lap awaits validation, the time since
\* its boundary mark is in (0.3 s, 3 s] and the last lap time is positive,
\* the awaited curve becomes delta_list_last, used_last becomes the usage of
\* that lap (the cumulative-used value of its end knot, to 6 decimals) and
\* nothing awaits validation any more; for every reading of the elapsed time
\* at the boundary.
C1_ValidLapAlwaysInstalled ==
    [][ ( /\ IsTick
          /\ mark # NoMark
          /\ ~ClosesLap
          /\ InWindow(api.elapsed - mark[1])
          /\ api.last_laptime > 0 )
        => ( /\ gen'.delta_list_last = gen.delta_list_temp
             /\ Round6(gen'.used_last, 7) = Last(gen.delta_list_temp)[2]
             /\ gen'.validating = 0
             /\ mark' = NoMark ) ]_vars

\* C2: delta_list_last or used_last changes on a tick only if a lap awaits
\* validation, the time since its mark is in (0.3 s, 3 s] and the last lap
\* time is positive, and then the awaited curve is what is installed; a tick
\* that reads a time more than 3 s after the mark drops the awaited lap and
\* leaves the reference lap as it is.
C2_ReferenceChangesOnlyOnValidation ==
    [][ /\ ( gen'.delta_list_last # gen.delta_list_last
             \/ gen'.used_last # gen.used_last )
           => ( /\ mark # NoMark
                /\ InWindow(api.elapsed - mark[1])
                /\ api.last_laptime > 0
                /\ gen'.delta_list_last = gen.delta_list_temp )
        /\ ( IsTick /\ mark # NoMark /\ ~ClosesLap
             /\ api.elapsed - mark[1] > ValidateUntil )
           => ( /\ gen'.validating = 0
                /\ mark' = NoMark
                /\ gen'.delta_list_last = gen.delta_list_last
                /\ gen'.used_last = gen.used_last ) ]_vars

\* a closed lap with usage has been installed as the reference lap
C2_Witness ==
    /\ Len(gen.delta_list_last) > 1
    /\ gen.used_last > 0
    /\ gen.delayed_save

\* C3: on a tick that detects no lap boundary used_curr grows by the positive
\* part of (previous reading - current reading), and a boundary tick restarts
\* it at 0, so between two boundaries it is the sum of the positive
\* decrements; a tick whose reading is higher than the previous one adds
\* nothing and sets amount_start and amount_last to the new reading.  (The
\* previous reading is amount_last: every tick leaves the reading there.)
C3_UsedIsSumOfDecrements ==
    [][ IsTick =>
        LET prev == gen.amount_last
            curr == api.amount_curr
        IN  /\ gen'.amount_last = curr
            /\ gen'.used_curr =
                 IF DetectsBoundary THEN 0
                 ELSE gen.used_curr + Max(prev - curr, 0)
            /\ curr > prev => gen'.amount_start = curr
            /\ curr <= prev => gen'.amount_start = gen.amount_start ]_vars

\* two decrements with a refuel between them have been summed within one lap
C3_Witness ==
    /\ gen.used_curr = 2 * LevelSize
    /\ gen.amount_start = LevelSize
    /\ gen.last_lap_stime # UnsetLapStart

\* C4: the sample positions of every installed reference curve are in
\* non-decreasing list order.
C4_InstalledCurveSorted ==
    \A k \in 1..(Len(gen.delta_list_last) - 1) :
        gen.delta_list_last[k][1] <= gen.delta_list_last[k + 1][1]

\* C5: the end knot appended when a lap is closed and kept has the position
\* of the last knot recorded in that lap's curve plus 10, the usage summed
\* over the lap (to 6 decimals) and the difference of the two lap-start times.
C5_EndKnot ==
    [][ ClosesLap
        => Last(gen'.delta_list_temp) =
             << Last(gen.delta_list_curr)[1] + EndOffset,
                Round6(gen.used_curr
                       + Max(gen.amount_last - gen'.amount_last, 0), 7),
                gen'.last_lap_stime - gen.last_lap_stime >> ]_vars

(***************************************************************************)
(* Claims about the relative module                                        *)
(***************************************************************************)

\* a step in which the relative module stores the lists of a tick
IsRelativeTick == scene' = scene /\ relative' # relative

\* the settings as the tick clamps them
AddFront(sc) ==
    max_relative_vehicles(sc.setting.additional_players_front,
                          sc.setting.additional_players_behind)[2]
AddBehind(sc) ==
    max_relative_vehicles(sc.setting.additional_players_front,
                          sc.setting.additional_players_behind)[3]
Window(sc) == RelativeMin + AddFront(sc) + AddBehind(sc)

\* the candidate pool in sorted order, as vehicle indices
SortedPool(sc) ==
    [ i \in 1..Len(RelDistList(sc)) |-> RelDistList(sc)[i][2] ]

\* C6: the relative list a tick publishes has exactly 7 + front + behind
\* entries, front and behind being the settings clamped to 0..60, whatever
\* the field size, the garage flags and the session type, also when no
\* vehicle is in the candidate pool.
C6_RelativeLength ==
    [][ IsRelativeTick => Len(relative'.relative) = Window(scene) ]_vars

\* C7: when the telemetry shows at least one vehicle and the overall places
\* are a permutation of 1..N, the standings list a tick publishes holds the
\* player's vehicle index, in combined and in split mode, for every setting
\* of the top count and of the limits and every place of the player.
PlacesArePermutation(sc) ==
    { sc.place[i] : i \in Vehicles(sc.total_vehicles) }
        = 1..sc.total_vehicles

C7_PlayerInStandings ==
    [][ (IsRelativeTick /\ scene.total_vehicles >= 1
           /\ PlacesArePermutation(scene))
        => Contains(relative'.standings, scene.plr_index) ]_vars

\* C7 witness: split mode, the player's class is cut down to a window that
\* does not start at the top of the class, and the player is in the list
C7_Witness ==
    /\ scene.setting.enable_multi_class_split_mode
    /\ relative.standings # <<>>
    /\ Len(relative.standings) < Len(relative.classes)
    /\ \E i \in 1..Len(relative.classes) :
          /\ relative.classes[i][1] = scene.plr_index
          /\ relative.classes[i][2] >
               min_top_vehicles_in_class(scene.setting.min_top_vehicles) + 2
          /\ relative.classes[i][3] = 1
          /\ \E j \in 1..Len(relative.classes) : relative.classes[j][3] = 2
    /\ Contains(relative.standings, scene.plr_index)

\* C8: when the candidate pool holds at least 7 + front + behind vehicles and
\* the player is at position p of the pool sorted by relative distance
\* descending, slot k of the published list is the entry at position
\* (p - 3 - front + k) mod n of the sorted pool.
C8_SlotsWrapAround ==
    [][ (IsRelativeTick /\ Len(SortedPool(scene)) >= Window(scene)
           /\ Contains(SortedPool(scene), scene.plr_index))
        => LET pool == SortedPool(scene)
               n == Len(pool)
               p == IndexOf(pool, scene.plr_index)
           IN  /\ Len(relative'.relative) = Window(scene)
               /\ \A k \in 0..(Window(scene) - 1) :
                     relative'.relative[k + 1]
                       = pool[((p - 3 - AddFront(scene) + k) % n) + 1] ]_vars

\* C8 witness: the player is second in a pool larger than the window, so
\* the front side of the published list starts with the last entry of the pool
C8_Witness ==
    /\ relative.relative # <<>>
    /\ Contains(SortedPool(scene), scene.plr_index)
    /\ IndexOf(SortedPool(scene), scene.plr_index) = 2
    /\ AddFront(scene) = 0
    /\ Len(SortedPool(scene)) > Window(scene)
    /\ relative.relative[1] = Last(SortedPool(scene))

\* C9: a published relative list that is not empty holds the player's
\* vehicle index in slot 3 + front, in every session type and for every
\* garage flag of the player and show_vehicle_in_garage_for_race setting.
C9_PlayerCentred ==
    [][ (IsRelativeTick /\ relative'.relative # <<>>)
        => relative'.relative[3 + AddFront(scene) + 1] = scene.plr_index
      ]_vars

(***************************************************************************)
(* Claims about publication                                                *)
(***************************************************************************)

\* C10: whatever the reader thread reads between two steps of a module's
\* tick is whole: the fuel values it reads are all those published before
\* the tick or all those of the tick, and so are the classes, relative and
\* standings lists.
C10_NoPartialUpdate ==
    [][ seen' # seen
        => /\ seen'.fuel \in { pub.fuel_old, pub.fuel_new }
           /\ seen'.relative \in { pub.rel_old, pub.rel_new } ]_vars

(***************************************************************************)
(* Claims about the consumption file                                       *)
(***************************************************************************)

\* C14: a curve of at least 10 rows that is saved and then loaded from the
\* same file comes back as the same sequence of rows, and the used_last and
\* laptime_last returned with it are the second and third field of its last
\* row.
C14_SaveLoadRoundTrip ==
    (call.op = "loaded" /\ Len(call.args[1]) >= MinRows)
    => /\ call.out[1] = call.args[1]
       /\ call.out[2] = Last(call.args[1])[2]
       /\ call.out[3] = Last(call.args[1])[3]

\* C14 witness: a curve of 11 rows with negative usages has been saved and
\* loaded
C14_Witness ==
    /\ call.op = "loaded"
    /\ Len(call.args[1]) = MinRows + 1
    /\ call.args[1][1][2] < 0
    /\ Last(call.args[1])[3] > 0
    /\ Len(disk.rows) = MinRows + 1
    /\ call.out[1] = call.args[1]

(***************************************************************************)
(* Claims about the fuel module's update thread, under SpecFuelLoop.       *)
(***************************************************************************)
\* C11: saving runs on a path detached from the polling loop: while the
\* file is open for writing the polling thread is in its wait, the write is
\* no step of the polling thread
C11_SaveDetached == disk.writing => poll.fuel.pc = "wait"

\* the tick that finds telemetry active after idle, and the one that finds
\* it idle after active
IsActivation == ~poll.fuel.reset /\ poll'.fuel.reset
IsIdleTransition == poll.fuel.reset /\ ~poll'.fuel.reset
SaveIsCalled == disk'.calls # disk.calls

\* load_delta read the file and its validator dropped rows of it
DroppedRows(d) ==
    /\ d.exists /\ d.mode # "none" /\ RowsAreNumbers(d.rows)
    /\ Len(delta_list(ParseRows(d.rows))) # Len(d.rows)

\* C12 as stated: save_delta is called only when the generator is sent
\* updating=False at an active-to-idle transition, after a lap was validated
C12_SaveOnlyWhenSentFalse ==
    [][SaveIsCalled => IsIdleTransition /\ gen.delayed_save]_vars

\* C12, amended: save_delta is called only at an active-to-idle transition
\* after a lap was validated, or inside load_delta at an activation when
\* the validator dropped rows of the file; every active-to-idle transition
\* after a validated lap calls it once; and delayed_save, false after an
\* activation, turns true only on a tick that installs a validated lap
C12_SaveOnIdleOrLoad ==
    [][ /\ SaveIsCalled => \/ IsIdleTransition /\ gen.delayed_save
                           \/ IsActivation /\ DroppedRows(disk)
        /\ IsIdleTransition /\ gen.delayed_save => SaveIsCalled
        /\ IsActivation /\ poll'.fuel.pc # "dead" => ~gen'.delayed_save
        /\ gen'.delayed_save /\ ~gen.delayed_save /\ ~IsActivation
              => IsInstalling(ValidatingNow(gen, api'), api') ]_vars

C12_Witness ==
    poll.fuel.pc = "save" /\ gen.delayed_save /\ poll.fuel.last_tick = "idle"

\* the load at an activation fails: no file, a file that cannot be read,
\* or content that is no curve
LoadFails(d) ==
    \/ ~d.exists \/ d.mode = "none" \/ ~RowsAreNumbers(d.rows)
    \/ delta_list(ParseRows(d.rows)) = <<>>
    \/ Len(Last(delta_list(ParseRows(d.rows)))) < 3

\* C13: every persistence failure is recovered locally: an activation whose
\* load fails leaves the generator with the default curve and used_last = 0,
\* and no failure, on load or on save, ends the polling loop
C13_FailureRecovered ==
    [][ /\ poll'.fuel.pc # "dead"
        /\ IsActivation /\ LoadFails(disk)
              => /\ gen'.delta_list_last = DELTA_DEFAULT
                 /\ gen'.used_last = 0 ]_vars

\* C17: after a tick that found telemetry idle the loop waits the idle
\* interval, after a tick that found it active the active interval, from
\* the first tick on
C17_IntervalFollowsTelemetry ==
    poll.fuel.pc = "wait" /\ poll.fuel.last_tick # "none"
        => poll.fuel.update_interval = poll.fuel.last_tick

(***************************************************************************)
(* Claims about a session that restarts, under SpecSession.                *)
(***************************************************************************)
\* the step is a tick of the generator; call' holds its readings
IsSessionTick == api' = api /\ call'.op = "send"

\* C15: on every tick whose lap-start time differs from the one of the tick
\* before, which was not the -1 of the start, a lap boundary is processed:
\* used_curr is 0, the pit-lap flag is cleared and the current-lap curve is
\* the single zero knot; a lap-start time that decreases is included
C15_BoundaryOnEveryChange ==
    [][ /\ IsSessionTick
        /\ gen.last_lap_stime # UnsetLapStart
        /\ call'.args[1].lap_stime # gen.last_lap_stime
        => /\ gen'.used_curr = 0
           /\ ~gen'.pit_lap
           /\ gen'.delta_list_curr = << DELTA_ZERO >> ]_vars

\* the readings of the tick: a lap time strictly between 0 and 1 s and a
\* position above 300
ReadsDesync(t) ==
    /\ 0 < t.current_laptime /\ t.current_laptime < DesyncLapTime
    /\ t.pos_curr > DesyncPosition

\* C16: on every tick with a lap time strictly between 0 and 1 s and a
\* position above 300, pos_last becomes 0 and no sample is appended: the
\* current-lap curve is the one before the tick, or the single zero knot if
\* the tick is a lap boundary
C16_DesyncRecordsNothing ==
    [][ IsSessionTick /\ ReadsDesync(call'.args[1])
        => /\ gen'.pos_last = 0
           /\ gen'.delta_list_curr \in { gen.delta_list_curr, << DELTA_ZERO >> } ]_vars

\* a desync reading has come while a lap is being recorded
C16_Witness ==
    /\ call.op = "send" /\ ReadsDesync(call.args[1])
    /\ gen.recording /\ Len(gen.delta_list_curr) > 1
    /\ gen.pos_last = 0

(***************************************************************************)
(* Claims about start() and stop(), under SpecPollFair.                    *)
(***************************************************************************)
\* C18: a tick begins only on a wait that found the event not set, and once
\* stop() has set the event every thread of the module leaves its loop,
\* unless a start() clears the event first
C18_StopEndsLoop ==
    /\ [][ \A i \in Threads :
              poll.relative.threads[i].pc = "wait"
              /\ poll'.relative.threads[i].pc = "tick"
                 => ~poll.relative.event ]_vars
    /\ poll.relative.event
          ~> \/ ~poll.relative.event
             \/ \A i \in Threads : poll.relative.threads[i].pc = "done"

\* a thread that has ticked has left its loop after a stop()
C18_Witness ==
    /\ poll.relative.event
    /\ \E i \in Threads :
          /\ poll.relative.threads[i].pc = "done"
          /\ poll.relative.threads[i].last_tick # "none"

(***************************************************************************)
(* Claims about the fuel calculator, under SpecCalculator.                 *)
(***************************************************************************)
\* C19: the pit-count loop of run_calculation runs its body 10 times at
\* most, for every input
C19_LoopBounded ==
    call.op \in { "run_calculation", "returned" }
        => call.out[1].iterations <= LoopLimit

(***************************************************************************)
(* Claims about create_reference_place, under SpecPlaces.                  *)
(***************************************************************************)
FirstPlaces(n) == [ i \in 1..n |-> i ]
PlacesReturned == call.op = "returned" /\ Len(call.args) = 4

\* the window around the player is cut neither by the top band nor by the
\* last place
WindowFits(min_top, total, plr, limit) ==
    /\ plr - (limit - min_top) \div 2 > min_top
    /\ plr + (limit - min_top - 1) \div 2 <= total

\* C20: create_reference_place returns places 1..total if total <= limit;
\* else 1..limit if the player's place is within the top band; else the top
\* band followed by limit - min_top consecutive places, the player's among
\* them and none beyond the last place, with ceil((limit - min_top - 1)/2)
\* places ahead of the player and floor((limit - min_top - 1)/2) behind when
\* the window fits
C20_ReferencePlaces ==
    PlacesReturned =>
        LET min_top == call.args[1]
            total == call.args[2]
            plr == call.args[3]
            limit == call.args[4]
            out == call.out
        IN  IF total <= limit THEN out = FirstPlaces(total)
            ELSE IF plr <= min_top THEN out = FirstPlaces(limit)
            ELSE /\ Len(out) = limit
                 /\ SubSeq(out, 1, min_top) = FirstPlaces(min_top)
                 /\ out[min_top + 1] > min_top
                 /\ \A i \in (min_top + 1)..(limit - 1) : out[i + 1] = out[i] + 1
                 /\ \E i \in (min_top + 1)..limit : out[i] = plr
                 /\ out[limit] <= total
                 /\ WindowFits(min_top, total, plr, limit)
                       => /\ out[min_top + 1] = plr - (limit - min_top) \div 2
                          /\ out[limit] = plr + (limit - min_top - 1) \div 2

\* a window that fits, with an odd slot to give
C20_Witness ==
    /\ PlacesReturned
    /\ call.args[2] > call.args[4] /\ call.args[3] > call.args[1]
    /\ WindowFits(call.args[1], call.args[2], call.args[3], call.args[4])
    /\ (call.args[4] - call.args[1]) % 2 = 0

(***************************************************************************)
(* C22: create_class_position gives every vehicle its rank by overall      *)
(* place among the vehicles of its class, so the in-class positions of a   *)
(* class of k vehicles are exactly 1..k in increasing order of place, and  *)
(* entry i of the returned class position list describes vehicle index i.  *)
(***************************************************************************)
InClass(sc, c) ==
    { i \in Vehicles(sc.total_vehicles) : sc.class_name[i] = c }

C22_ClassPositions ==
    relative.classes # <<>> =>
        /\ Len(relative.classes) = scene.total_vehicles
        /\ \A i \in Vehicles(scene.total_vehicles) :
              /\ relative.classes[i + 1][1] = i
              /\ relative.classes[i + 1][3] = scene.class_name[i]
              /\ relative.classes[i + 1][2] =
                    Cardinality({ j \in InClass(scene, scene.class_name[i]) :
                                    scene.place[j] <= scene.place[i] })

\* C22 witness: two classes or more, one of them with three vehicles whose
\* order by place is not their order by index, and the list is stored
C22_Witness ==
    /\ relative.classes # <<>>
    /\ \E i, j \in Vehicles(scene.total_vehicles) :
          /\ scene.class_name[i] # scene.class_name[j]
          /\ Cardinality(InClass(scene, scene.class_name[i])) >= 3
    /\ \E i, j \in Vehicles(scene.total_vehicles) :
          /\ i < j
          /\ scene.class_name[i] = scene.class_name[j]
          /\ scene.place[i] > scene.place[j]
          /\ relative.classes[i + 1][2] > relative.classes[j + 1][2]

(***************************************************************************)
(* C23: the class best lap time attached to every vehicle of a class is    *)
(* the smallest positive best lap time among the vehicles of that class,   *)
(* and 99999 when no vehicle of the class has one.                         *)
(***************************************************************************)
ClassLapTimes(sc, c) ==
    { sc.best_laptime[j] : j \in { k \in InClass(sc, c) :
                                      sc.best_laptime[k] > 0 } }

FastestInClass(sc, c) ==
    IF ClassLapTimes(sc, c) = {} THEN NoLapTime
    ELSE CHOOSE t \in ClassLapTimes(sc, c) :
             \A u \in ClassLapTimes(sc, c) : t <= u

C23_ClassBestIsMinimum ==
    relative.classes # <<>> =>
        \A i \in Vehicles(scene.total_vehicles) :
            relative.classes[i + 1][5]
                = FastestInClass(scene, scene.class_name[i])

(***************************************************************************)
(* C21: in multi-class split mode the standings list is the concatenation  *)
(* of one block per class, the blocks in ascending order of the class best *)
(* lap time, every block ending with its only -1; a block is the window of *)
(* create_reference_place over the in-class positions, cut with the player *)
(* limit around the player's in-class position in the player's class and   *)
(* with the other-class limit and no player position in any other class.   *)
(***************************************************************************)
ClassesOf(sc) == { sc.class_name[i] : i \in Vehicles(sc.total_vehicles) }

ClassOrders(sc) ==
    { order \in [ 1..Cardinality(ClassesOf(sc)) -> ClassesOf(sc) ] :
        \A a, b \in DOMAIN order : a # b => order[a] # order[b] }

RankInClass(sc, i) ==
    Cardinality({ j \in InClass(sc, sc.class_name[i]) :
                    sc.place[j] <= sc.place[i] })

ClassBlock(sc, c) ==
    LET min_top_veh == min_top_vehicles_in_class(sc.setting.min_top_vehicles)
        veh_limit ==
            max_vehicle_limit_set(
                min_top_veh,
                sc.setting.max_vehicles_combined_mode,
                sc.setting.max_vehicles_per_split_others,
                sc.setting.max_vehicles_per_split_player)
        k == Cardinality(InClass(sc, c))
        has_player == sc.plr_index \in InClass(sc, c)
        by_position ==
            [ p \in 1..k |->
                << p, CHOOSE i \in InClass(sc, c) : RankInClass(sc, i) = p >> ]
    IN  player_index_from_place_reference(
            create_reference_place(
                min_top_veh, k,
                IF has_player THEN RankInClass(sc, sc.plr_index) ELSE 0,
                IF has_player THEN veh_limit[3] ELSE veh_limit[2]),
            by_position)

EndsWithOnlySentinel(block) ==
    /\ block # <<>>
    /\ \A p \in 1..Len(block) : (block[p] = -1) <=> (p = Len(block))

\* the lap time of the vehicle leading the class by place (lines 216-217)
LeaderLapTime(sc, c) ==
    LET leader == CHOOSE i \in InClass(sc, c) : RankInClass(sc, i) = 1
    IN  IF sc.best_laptime[leader] > 0 THEN sc.best_laptime[leader]
        ELSE NoLapTime

IsSplit(sc) ==
    /\ sc.setting.enable_multi_class_split_mode
    /\ Cardinality(ClassesOf(sc)) > 1

BlocksInOrder(sc, standings, order) ==
    /\ standings = Chain([ a \in DOMAIN order |-> ClassBlock(sc, order[a]) ])
    /\ \A a \in DOMAIN order : EndsWithOnlySentinel(ClassBlock(sc, order[a]))

C21_SplitBlocks ==
    (relative.standings # <<>> /\ IsSplit(scene)) =>
        \E order \in ClassOrders(scene) :
            /\ \A a, b \in DOMAIN order :
                  a < b => FastestInClass(scene, order[a])
                             <= FastestInClass(scene, order[b])
            /\ BlocksInOrder(scene, relative.standings, order)

\* the same blocks, in ascending order of the lap time of each class leader
SplitBlocksByLeader ==
    (relative.standings # <<>> /\ IsSplit(scene)) =>
        \E order \in ClassOrders(scene) :
            /\ \A a, b \in DOMAIN order :
                  a < b => LeaderLapTime(scene, order[a])
                             <= LeaderLapTime(scene, order[b])
            /\ BlocksInOrder(scene, relative.standings, order)

(***************************************************************************)
(* C24: in a race session with show_vehicle_in_garage_for_race off no      *)
(* vehicle with the in-garage flag set is in the relative list of a tick;  *)
(* in any other session, and whenever the setting is on, every index       *)
(* 0..veh_total-1 is in the candidate pool, in the garage or not.          *)
(***************************************************************************)
HidesGarage(sc) ==
    sc.in_race /\ ~sc.setting.show_vehicle_in_garage_for_race

CandidatePool(sc) ==
    { get_relative_distance(sc)[k][2] :
        k \in 1..Len(get_relative_distance(sc)) }

C24_GarageHiddenInRaceOnly ==
    /\ HidesGarage(scene) =>
          \A i \in Vehicles(scene.total_vehicles) :
              scene.in_garage[i] => ~Contains(relative.relative, i)
    /\ ~HidesGarage(scene) =>
          CandidatePool(scene) = 0..(VehTotal(scene) - 1)

\* C24 witness: a race tick has stored a list that holds the player and
\* another vehicle while a third vehicle stands in the garage
C24_Witness ==
    /\ HidesGarage(scene)
    /\ Contains(relative.relative, scene.plr_index)
    /\ \E i, j \in Vehicles(scene.total_vehicles) :
          /\ i # scene.plr_index /\ j # scene.plr_index
          /\ scene.in_garage[i] /\ ~scene.in_garage[j]
          /\ Contains(relative.relative, j)

(***************************************************************************)
(* SpecStrategy: the strategy numbers of one tick of calc_data             *)
(* (module_fuel.py lines 238-274) on whole litres; laps_left is counted in *)
(* tenths of a lap.  call holds the tick's readings and locals (args) and  *)
(* the values it stores in minfo.fuel (out); a pit count is a fraction     *)
(* << n, d >> as in SpecCalculator.                                        *)
(***************************************************************************)
StrategyCapacities == {50, 100}
StrategyAmounts == {20, 60, 100}
StrategyUsedCurr == {0, 5}
StrategyUsedEst == {0, 5, 25}
StrategyLapsLeft == {0, 16, 80, 400}

InitStrategy ==
    /\ gen = GenInit /\ api = ApiInit /\ mark = NoMark
    /\ scene = SceneDefault /\ relative = RelativeInit
    /\ output = OutputInit /\ pub = PubInit /\ seen = SeenInit
    /\ poll = PollInit /\ disk = DiskInit
    /\ \E capacity \in StrategyCapacities, amount_curr \in StrategyAmounts,
          used_curr \in StrategyUsedCurr, used_est \in StrategyUsedEst,
          laps_left \in StrategyLapsLeft :
          /\ amount_curr <= capacity
          /\ call = [ op |-> "calc_data",
                      args |-> << [ capacity |-> capacity,
                                    amount_curr |-> amount_curr,
                                    used_curr |-> used_curr,
                                    used_est |-> used_est,
                                    laps_left |-> laps_left ] >>,
                      out |-> <<>> ]

\* lines 238-239: calc.total_fuel_needed(laps_left, used_est, amount_curr)
AmountNeed(in) ==
    total_fuel_needed(in.laps_left, in.used_est, 10 * in.amount_curr) \div 10

\* lines 241-242: calc.end_stint_fuel(amount_curr, used_curr, used_est), the
\* fuel left after the last whole lap counted from the start of this lap
AmountEnd(in) ==
    IF in.used_est = 0 THEN 0
    ELSE end_stint_fuel(in.amount_curr + in.used_curr, in.used_est)

\* lines 253-254
EstPitsLate(in) ==
    end_stint_pit_counts(AmountNeed(in), in.capacity - AmountEnd(in))

\* lines 262-274: the strategy numbers stored in minfo.fuel
StrategyTick ==
    /\ call.op = "calc_data"
    /\ call.out = <<>>
    /\ LET in == call.args[1]
       IN  /\ call' = [ call EXCEPT !.out =
                          << [ amountNeeded |-> AmountNeed(in),
                               amountEndStint |-> AmountEnd(in),
                               estimatedNumPitStopsEnd |-> EstPitsLate(in) ] >> ]
           /\ output' = [ OutputInit EXCEPT !.capacity = in.capacity,
                                            !.amountCurrent = in.amount_curr ]
    /\ UNCHANGED <<fuelvars, relvars, pubvars, poll, disk>>

NextStrategy == StrategyTick

SpecStrategy == InitStrategy /\ [][NextStrategy]_vars

(***************************************************************************)
(* C25: the estimatedNumPitStopsEnd a tick publishes is the integer        *)
(* max(0, ceil(amountNeeded / (capacity - amountEndStint))); with          *)
(* amountNeeded 20 and capacity - amountEndStint 80 it is 1.               *)
(***************************************************************************)
C25_PitStopsRoundedUp ==
    (call.op = "calc_data" /\ call.out # <<>>) =>
        LET published == call.out[1].estimatedNumPitStopsEnd
            expected ==
                Max(0, CeilOf(<< call.out[1].amountNeeded,
                                 output.capacity
                                   - call.out[1].amountEndStint >>))
        IN  published[1] = expected * published[2]

(***************************************************************************)
(* SpecPitLap: the laps of SpecLap with their pit history.  call.out keeps *)
(* what the readings of the ticks so far tell about the laps:              *)
(*   pit_seen      in_pits() was read set on a tick of the lap in progress *)
(*                 (the ticks after the boundary tick that started it)     *)
(*   raw_pit       the lap closed last was such a lap                      *)
(*   pending_pit   the lap kept for validation last was such a lap         *)
(*   reference_pit the lap installed as reference last was such a lap      *)
(*   overlap       a boundary was detected after the boundary of the lap   *)
(*                 kept for validation, while that lap was pending         *)
(*   used_pit      used_last was taken from such a lap with no overlap     *)
(*   skipped       a lap with knots was closed on a tick that read         *)
(*                 in_pits() clear, after an earlier tick read it set      *)
(***************************************************************************)
PitHistoryInit ==
    [ pit_seen |-> FALSE, raw_pit |-> FALSE, pending_pit |-> FALSE,
      reference_pit |-> FALSE, overlap |-> FALSE, used_pit |-> FALSE,
      skipped |-> FALSE ]

PitHistoryStep(h, g, t) ==
    LET boundary == IsBoundary(g, t)
        closing_pit == h.pit_seen \/ t.in_pits
        install == IsInstalling(ValidatingNow(g, t), t)
        pending_pit == IF IsMarked(g, t) THEN closing_pit ELSE h.pending_pit
        raw_pit == IF boundary THEN closing_pit ELSE h.raw_pit
        overlap == IF IsMarked(g, t) THEN FALSE
                   ELSE IF boundary /\ g.validating # 0 THEN TRUE
                   ELSE h.overlap
    IN  [ pit_seen |-> IF boundary THEN FALSE ELSE closing_pit,
          raw_pit |-> raw_pit,
          pending_pit |-> pending_pit,
          reference_pit |-> IF install THEN pending_pit ELSE h.reference_pit,
          overlap |-> overlap,
          used_pit |-> IF install THEN raw_pit /\ ~overlap ELSE h.used_pit,
          skipped |-> \/ h.skipped
                      \/ /\ boundary /\ Len(g.delta_list_curr) > 1
                         /\ h.pit_seen /\ ~t.in_pits ]

InitPitLap ==
    /\ gen = GenInit /\ api = ApiInit /\ mark = NoMark
    /\ scene = SceneDefault /\ relative = RelativeInit
    /\ output = OutputInit /\ pub = PubInit /\ seen = SeenInit
    /\ poll = PollInit /\ disk = DiskInit
    /\ call = [ op |-> "send", args |-> <<>>, out |-> << PitHistoryInit >> ]

PitLapTick ==
    \E a \in SessionLevelsNow, s \in LapStartsNow, l \in LapTimes,
       p \in Positions :
        LET t == [api EXCEPT !.amount_curr = a, !.lap_stime = s,
                             !.current_laptime = l, !.pos_curr = p]
            g == FuelStep(gen, t)
        IN  /\ InBounds(g)
            /\ gen' = g
            /\ mark' = MarkStep(gen, mark, t)
            /\ output' = FuelOutput(g, t)
            /\ call' = [ call EXCEPT
                           !.out = << PitHistoryStep(call.out[1], gen, t) >> ]
            /\ UNCHANGED <<api, relvars, pubvars, poll, disk>>

NextPitLap ==
    \/ PitLapTick
    \/ ApiElapsed
    \/ ApiLastLapTime
    \/ ApiInPits

SpecPitLap == InitPitLap /\ [][NextPitLap]_vars

(***************************************************************************)
(* C28: the pit-lap flag is set from the first tick of a lap that reads    *)
(* in_pits() set and stays set until a lap boundary clears it; a lap with  *)
(* such a tick (its ending boundary tick included) is never kept for       *)
(* validation and never installed as the reference lap.                    *)
(***************************************************************************)
C28_PitLapNeverReference ==
    call.op = "send" =>
        /\ gen.pit_lap = call.out[1].pit_seen
        /\ ~call.out[1].pending_pit
        /\ ~call.out[1].reference_pit
        /\ ~call.out[1].used_pit

\* C28 witness: a lap with knots was closed on a tick that read in_pits()
\* clear, after an earlier tick of the lap read it set; the flag is cleared
\* and no lap is pending or installed
C28_Witness ==
    /\ call.op = "send"
    /\ call.out[1].skipped
    /\ call.out[1].raw_pit
    /\ ~gen.pit_lap
    /\ gen.validating = 0
    /\ gen.delta_list_last = DELTA_DEFAULT

(***************************************************************************)
(* SpecDelta: the consumption a tick of calc_data publishes as             *)
(* estimatedValidConsumption (module_fuel.py lines 205-223, 269).  The     *)
(* generator starts with or without a stored reference lap; every tick     *)
(* draws the lap-start time, the laps completed and the delta that         *)
(* calc.delta_telemetry returned.  call keeps these readings (args) and    *)
(* the published value (out).                                              *)
(***************************************************************************)
DeltaLapsDone == {0, 1, 2}
DeltaValues == {-2, 3}
DeltaFiles == { DiskInit, GoodFile(MinRows) }

\* calc.end_lap_consumption(used_last, delta_fuel, condition): the reference
\* usage, with the delta added when the condition holds
end_lap_consumption(used_last, delta_fuel, condition) ==
    IF condition THEN used_last + delta_fuel ELSE used_last

\* line 223 read as 0 == pit_lap: the laps completed are not looked at
DeltaEnabledAnyLap(pit_lap, laps_done) ==
    (IF pit_lap THEN 1 ELSE 0) = 0

\* line 223: the chained comparison 0 == pit_lap < laps_done, pit_lap
\* counting as 0 or 1
DeltaEnabled(pit_lap, laps_done) ==
    LET value == IF pit_lap THEN 1 ELSE 0
    IN  0 = value /\ value < laps_done

InitDelta ==
    /\ api = ApiInit /\ mark = NoMark
    /\ scene = SceneDefault /\ relative = RelativeInit
    /\ output = OutputInit /\ pub = PubInit /\ seen = SeenInit
    /\ poll = PollInit
    /\ \E d \in DeltaFiles :
          /\ disk = load_delta(d).disk
          /\ gen = GenLoaded(load_delta(d))
    /\ call = [ op |-> "send", args |-> <<>>, out |-> <<>> ]

DeltaTick ==
    \E s \in LapStartsNow, laps_done \in DeltaLapsDone,
       delta_fuel \in DeltaValues :
        LET t == [api EXCEPT !.lap_stime = s]
            g == FuelStep(gen, t)
            used_est == end_lap_consumption(
                            g.used_last, delta_fuel,
                            DeltaEnabled(g.pit_lap, laps_done))
        IN  /\ InBounds(g)
            /\ gen' = g
            /\ mark' = MarkStep(gen, mark, t)
            /\ output' = FuelOutput(g, t)
            /\ call' = [ call EXCEPT
                           !.args = << [ laps_done |-> laps_done,
                                         delta_fuel |-> delta_fuel ] >>,
                           !.out = << [ estimatedValidConsumption
                                          |-> used_est ] >> ]
            /\ UNCHANGED <<api, relvars, pubvars, poll, disk>>

NextDelta ==
    \/ DeltaTick
    \/ ApiInPits

SpecDelta == InitDelta /\ [][NextDelta]_vars

(***************************************************************************)
(* C29: the estimatedValidConsumption of a tick is the reference usage     *)
(* plus the delta if and only if the pit-lap flag is clear and laps_done   *)
(* is above 0; otherwise (first lap, pit in/out lap) it is the reference   *)
(* usage alone.                                                            *)
(***************************************************************************)
C29_DeltaGate ==
    (call.op = "send" /\ call.out # <<>>) =>
        LET published == call.out[1].estimatedValidConsumption
            enabled == ~gen.pit_lap /\ call.args[1].laps_done > 0
        IN  /\ enabled =>
                  published = gen.used_last + call.args[1].delta_fuel
            /\ ~enabled => published = gen.used_last

\* C29 witness: a tick on a pit lap after the first lap publishes the stored
\* reference usage without the delta
C29_Witness ==
    /\ call.op = "send" /\ call.out # <<>>
    /\ gen.pit_lap
    /\ call.args[1].laps_done > 0
    /\ gen.used_last > 0
    /\ call.out[1].estimatedValidConsumption = gen.used_last

\* a tick on a lap without pit reading, with laps completed, publishes the
\* stored reference usage with the delta
DeltaAdded ==
    /\ call.op = "send" /\ call.out # <<>>
    /\ ~gen.pit_lap
    /\ gen.used_last > 0
    /\ call.out[1].estimatedValidConsumption # gen.used_last

(***************************************************************************)
(* SpecInterval: DataModule.__init__ (_base.py lines 46-53) on every       *)
(* configuration of the three interval settings, which are whole           *)
(* milliseconds.  A number is kept as an integer count of millionths, so   *)
(* that the division by 1000 of lines 48 and 53 is exact.  call holds the  *)
(* settings (args) and the two attributes the constructor sets (out).      *)
(***************************************************************************)
IntervalScale == 1000000
IntervalDivisor == 1000
UpdateIntervals == {1, 10, 20, 100, 200, 500, 1000, 2000}
IdleUpdateIntervals == {1, 10, 100, 400, 1000, 2000}
MinimumUpdateIntervals == {1, 10, 50}

\* lines 46-48
active_interval(update_interval, minimum_update_interval) ==
    (Max(update_interval, minimum_update_interval) * IntervalScale)
        \div IntervalDivisor

\* lines 49-53: the first argument of max is self.active_interval as line
\* 46 has just set it
idle_interval(active, idle_update_interval, minimum_update_interval) ==
    Max(Max(active, idle_update_interval * IntervalScale),
        minimum_update_interval * IntervalScale)
        \div IntervalDivisor

InitInterval ==
    /\ gen = GenInit /\ api = ApiInit /\ mark = NoMark
    /\ scene = SceneDefault /\ relative = RelativeInit
    /\ output = OutputInit /\ pub = PubInit /\ seen = SeenInit
    /\ poll = PollInit /\ disk = DiskInit
    /\ \E u \in UpdateIntervals, i \in IdleUpdateIntervals,
          m \in MinimumUpdateIntervals :
          call = [ op |-> "__init__",
                   args |-> << [ update_interval |-> u,
                                 idle_update_interval |-> i,
                                 minimum_update_interval |-> m ] >>,
                   out |-> <<>> ]

\* lines 32-53
DataModuleInit ==
    /\ call.op = "__init__"
    /\ call.out = <<>>
    /\ LET mcfg == call.args[1]
           active == active_interval(mcfg.update_interval,
                                     mcfg.minimum_update_interval)
       IN  call' = [ call EXCEPT !.out =
                       << [ active_interval |-> active,
                            idle_interval |->
                                idle_interval(active,
                                    mcfg.idle_update_interval,
                                    mcfg.minimum_update_interval) ] >> ]
    /\ UNCHANGED <<fuelvars, relvars, output, pubvars, poll, disk>>

NextInterval == DataModuleInit

SpecInterval == InitInterval /\ [][NextInterval]_vars

(***************************************************************************)
(* C30: whatever update_interval, idle_update_interval and                 *)
(* minimum_update_interval are set to, the idle_interval of a constructed  *)
(* DataModule is at least its active_interval.                             *)
(***************************************************************************)
C30_IdleNotBelowActive ==
    (call.op = "__init__" /\ call.out # <<>>) =>
        call.out[1].idle_interval >= call.out[1].active_interval

(***************************************************************************)
(* SpecWidget: the relative widget's timerEvent (widget/relative.py lines  *)
(* 227-247) beside the two modules that write what it reads.  relative is  *)
(* minfo.relative; output holds minfo.vehicles.dataSet, one record per     *)
(* vehicle, which the vehicles module replaces as a whole; call holds the  *)
(* widget: its veh_range, the locals of the running timerEvent and the     *)
(* rows veh_0, veh_1, .. it has set so far.  The modules run between any   *)
(* two rows of the widget.                                                 *)
(***************************************************************************)
WidgetTotals == {0, 1, 3, MaxVehicles}
WidgetAddFront == {0, 1}

VehicleData(index, total) == [ kind |-> "data", index |-> index, total |-> total ]
\* lines 76-88
empty_vehicles_data == [ kind |-> "empty", index |-> -1, total |-> -1 ]
\* vehicles_data[index] raises IndexError
IndexError == [ kind |-> "IndexError", index |-> -1, total |-> -1 ]

DataSet(total) == [ i \in 1..total |-> VehicleData(i - 1, total) ]

\* lines 583-627: every field is read from vehicles_data[index]
get_data(index, vehicles_data) ==
    IF 0 <= index /\ index < Len(vehicles_data)
    THEN vehicles_data[index + 1]
    ELSE IF index < 0 /\ -index <= Len(vehicles_data)
    THEN vehicles_data[Len(vehicles_data) + index + 1]
    ELSE IndexError

\* line 240 without the comparison with total_veh_idx
IsRowInListOnly(idx, relative_idx, total_veh_idx) ==
    /\ idx < Len(relative_idx)
    /\ 0 <= relative_idx[idx + 1]

\* line 240: idx < total_idx and 0 <= relative_idx[idx] < total_veh_idx
IsRowInRange(idx, relative_idx, total_veh_idx) ==
    /\ idx < Len(relative_idx)
    /\ 0 <= relative_idx[idx + 1]
    /\ relative_idx[idx + 1] < total_veh_idx

\* lines 240-247: what row idx is set to
RowData(idx, relative_idx, vehicles_data) ==
    IF IsRowInRange(idx, relative_idx, Len(vehicles_data))
    THEN get_data(relative_idx[idx + 1], vehicles_data)
    ELSE empty_vehicles_data

WidgetIdle(veh_range) ==
    [ op |-> "widget",
      args |-> << [ veh_range |-> veh_range, relative_idx |-> <<>>,
                    vehicles_data |-> <<>> ] >>,
      out |-> <<>> ]

InitWidget ==
    /\ gen = GenInit /\ api = ApiInit /\ mark = NoMark
    /\ scene = SceneDefault /\ relative = RelativeInit
    /\ output = [ dataSet |-> <<>> ]
    /\ pub = PubInit /\ seen = SeenInit
    /\ poll = PollInit /\ disk = DiskInit
    /\ \E front \in WidgetAddFront :
          call = WidgetIdle(Max(RelativeMin + front, RelativeMin))

\* module_relative.py lines 74-93: a tick of the relative module on the
\* field the simulator shows now
WidgetRelativeTick ==
    /\ \E n \in WidgetTotals \ {0}, front \in WidgetAddFront :
          LET sc == RelativeScene(n, 0, 5, {}, FALSE, FALSE, front, 0)
          IN  /\ scene' = sc
              /\ relative' = RelativeOutput(sc)
    /\ UNCHANGED <<fuelvars, output, pubvars, sysvars>>

\* the vehicles module stores the data set of the field it has read
VehiclesTick ==
    /\ \E n \in WidgetTotals : output' = [ dataSet |-> DataSet(n) ]
    /\ UNCHANGED <<fuelvars, relvars, pubvars, sysvars>>

\* lines 228-234
TimerEventBegin ==
    /\ call.op = "widget"
    /\ api.state /\ relative.relative # <<>>
    /\ call' = [ op |-> "timerEvent",
                 args |-> << [ call.args[1] EXCEPT
                                 !.relative_idx = relative.relative,
                                 !.vehicles_data = output.dataSet ] >>,
                 out |-> <<>> ]
    /\ UNCHANGED <<fuelvars, relvars, output, pubvars, poll, disk>>

\* lines 237-247: one pass of the loop over the rows
TimerEventRow ==
    /\ call.op = "timerEvent"
    /\ Len(call.out) < call.args[1].veh_range
    /\ call' = [ call EXCEPT !.out =
                   Append(@, RowData(Len(call.out),
                                     call.args[1].relative_idx,
                                     call.args[1].vehicles_data)) ]
    /\ UNCHANGED <<fuelvars, relvars, output, pubvars, poll, disk>>

\* the loop has run over every row
TimerEventEnd ==
    /\ call.op = "timerEvent"
    /\ Len(call.out) = call.args[1].veh_range
    /\ call' = [ call EXCEPT !.op = "widget" ]
    /\ UNCHANGED <<fuelvars, relvars, output, pubvars, poll, disk>>

NextWidget ==
    \/ WidgetRelativeTick
    \/ VehiclesTick
    \/ TimerEventBegin
    \/ TimerEventRow
    \/ TimerEventEnd

SpecWidget == InitWidget /\ [][NextWidget]_vars

(***************************************************************************)
(* C26: timerEvent never indexes the vehicles data set out of range.  A    *)
(* row beyond the relative list, or whose entry is -1 or not below the     *)
(* length of the vehicles data set, shows the empty record, and any other  *)
(* row shows the data of the vehicle its entry names, also when the        *)
(* relative list is replaced and the vehicles data set shrinks between or  *)
(* during widget ticks.  The list and the data set are the ones the tick   *)
(* has read at lines 231-232.                                              *)
(***************************************************************************)
C26_RowsInRange ==
    \A k \in 1..Len(call.out) :
        LET relative_idx == call.args[1].relative_idx
            vehicles_data == call.args[1].vehicles_data
            outside == \/ k > Len(relative_idx)
                       \/ relative_idx[k] = -1
                       \/ relative_idx[k] >= Len(vehicles_data)
        IN  /\ call.out[k] # IndexError
            /\ outside => call.out[k] = empty_vehicles_data
            /\ ~outside =>
                  call.out[k] = VehicleData(relative_idx[k], Len(vehicles_data))

\* C26 witness: a tick has set every row; one row is empty because its
\* entry is beyond the data set the tick has read, one is beyond the list,
\* one shows a vehicle; meanwhile both modules have stored something else
C26_Witness ==
    /\ call.op = "timerEvent"
    /\ Len(call.out) = call.args[1].veh_range
    /\ Len(call.args[1].relative_idx) < call.args[1].veh_range
    /\ \E k \in 1..Len(call.args[1].relative_idx) :
          /\ call.args[1].relative_idx[k] >= Len(call.args[1].vehicles_data)
          /\ call.out[k] = empty_vehicles_data
    /\ \E k \in 1..Len(call.out) : call.out[k].kind = "data"
    /\ relative.relative # call.args[1].relative_idx
    /\ Len(output.dataSet) < Len(call.args[1].vehicles_data)

(***************************************************************************)
(* SpecSave: Setting.save and Setting.__saving (setting.py lines 146-202)  *)
(* called from MaxThreads threads (a module's update thread at its idle    *)
(* transition, module_wheels.py line 85; the GUI thread, ui/menu.py),      *)
(* which take no lock.  A thread can be switched out between any two       *)
(* statements.  call.out holds the Setting object's two attributes; poll   *)
(* holds the position of every calling thread and the number of __saving   *)
(* threads in the delay loop and in the saving attempts.                   *)
(***************************************************************************)
\* the delay counts of save(count), in sleeps of __saving
SaveCounts == {0, 2}
\* the threads that call save()
Callers == 1..MaxThreads

InitSave ==
    /\ gen = GenInit /\ api = ApiInit /\ mark = NoMark
    /\ scene = SceneDefault /\ relative = RelativeInit
    /\ output = OutputInit /\ pub = PubInit /\ seen = SeenInit
    /\ disk = DiskInit
    /\ poll = [ caller |-> [ i \in Callers |-> [ pc |-> "idle", calls |-> 0 ] ],
                saving |-> [ delay |-> 0, write |-> 0 ] ]
    \* lines 96-97
    /\ call = [ op |-> "Setting", args |-> <<>>,
                out |-> << [ is_saving |-> FALSE, save_delay |-> 0 ] >> ]

\* line 156: save(count) is entered and sets the delay counter
SettingSaveDelay(i) ==
    /\ poll.caller[i].pc = "idle"
    /\ poll.caller[i].calls < MaxSaves
    /\ \E count \in SaveCounts :
          call' = [ call EXCEPT !.out[1].save_delay = count ]
    /\ poll' = [ poll EXCEPT !.caller[i] =
                    [ pc |-> "test", calls |-> @.calls + 1 ] ]
    /\ UNCHANGED <<fuelvars, relvars, output, pubvars, disk>>

\* line 158: the flag is read
SettingSaveTest(i) ==
    /\ poll.caller[i].pc = "test"
    /\ poll' = [ poll EXCEPT !.caller[i].pc =
                    IF call.out[1].is_saving THEN "idle" ELSE "flag" ]
    /\ UNCHANGED <<fuelvars, relvars, output, pubvars, disk, call>>

\* line 159: the flag is set
SettingSaveFlag(i) ==
    /\ poll.caller[i].pc = "flag"
    /\ call' = [ call EXCEPT !.out[1].is_saving = TRUE ]
    /\ poll' = [ poll EXCEPT !.caller[i].pc = "start" ]
    /\ UNCHANGED <<fuelvars, relvars, output, pubvars, disk>>

\* lines 160-167: the saving thread is started
SettingSaveStart(i) ==
    /\ poll.caller[i].pc = "start"
    /\ poll' = [ poll EXCEPT !.caller[i].pc = "idle",
                             !.saving.delay = @ + 1 ]
    /\ UNCHANGED <<fuelvars, relvars, output, pubvars, disk, call>>

\* lines 174-176: one pass of the delay loop of a saving thread
SavingDelay ==
    /\ poll.saving.delay > 0
    /\ call.out[1].save_delay > 0
    /\ call' = [ call EXCEPT !.out[1].save_delay = @ - 1 ]
    /\ UNCHANGED <<fuelvars, relvars, output, pubvars, disk, poll>>

\* lines 174, 178-188: the delay is over and the file is written
SavingWrite ==
    /\ poll.saving.delay > 0
    /\ call.out[1].save_delay <= 0
    /\ poll' = [ poll EXCEPT !.saving.delay = @ - 1,
                             !.saving.write = @ + 1 ]
    /\ UNCHANGED <<fuelvars, relvars, output, pubvars, disk, call>>

\* lines 191-202: the thread clears the flag and ends
SavingEnd ==
    /\ poll.saving.write > 0
    /\ call' = [ call EXCEPT !.out[1].is_saving = FALSE ]
    /\ poll' = [ poll EXCEPT !.saving.write = @ - 1 ]
    /\ UNCHANGED <<fuelvars, relvars, output, pubvars, disk>>

NextSave ==
    \/ \E i \in Callers : SettingSaveDelay(i)
    \/ \E i \in Callers : SettingSaveTest(i)
    \/ \E i \in Callers : SettingSaveFlag(i)
    \/ \E i \in Callers : SettingSaveStart(i)
    \/ SavingDelay
    \/ SavingWrite
    \/ SavingEnd

SpecSave == InitSave /\ [][NextSave]_vars

(***************************************************************************)
(* C27: however the calls of Setting.save() from different threads         *)
(* interleave, at most one __saving thread is running at any time, and a   *)
(* save() made while one is running only sets the delay counter.           *)
(***************************************************************************)
SavingThreads == poll.saving.delay + poll.saving.write

C27_OneSavingThread ==
    call.op = "Setting" => SavingThreads <= 1

(***************************************************************************)
(* C36: no vehicle index other than -1 stands more than once in the        *)
(* relative list of a tick, whatever the field size, the player's position *)
(* in the sorted list and the front and behind settings.                   *)
(***************************************************************************)
C36_NoDuplicateIndex ==
    \A a, b \in 1..Len(relative.relative) :
        (a # b /\ relative.relative[a] # -1)
            => relative.relative[a] # relative.relative[b]

\* C36 witness: the sorted list fills the whole window and the player
\* stands near its head, so the front side is filled from the tail of the
\* list: the first slot holds a vehicle sorted after the player
C36_Witness ==
    /\ relative.relative # <<>>
    /\ Len(SortedPool(scene)) >= Window(scene)
    /\ Contains(SortedPool(scene), scene.plr_index)
    /\ relative.relative[1] # -1
    /\ IndexOf(SortedPool(scene), relative.relative[1])
          > IndexOf(SortedPool(scene), scene.plr_index)

(***************************************************************************)
(* C38: called with more vehicles than the limit, the player's place       *)
(* behind the top band and not beyond the last place, and a limit of at    *)
(* least min_top + 2, create_reference_place returns exactly limit places, *)
(* strictly ascending (so distinct), all within 1..total, and the block    *)
(* around the player begins behind the top min_top places.                 *)
(***************************************************************************)
PlayerBlockCase ==
    /\ PlacesReturned
    /\ call.args[2] > call.args[4]
    /\ call.args[3] > call.args[1]
    /\ call.args[3] <= call.args[2]
    /\ call.args[4] >= call.args[1] + 2

C38_DistinctAscendingPlaces ==
    PlayerBlockCase =>
        /\ Len(call.out) = call.args[4]
        /\ \A i \in 1..(Len(call.out) - 1) : call.out[i] < call.out[i + 1]
        /\ \A i \in 1..Len(call.out) :
              call.out[i] >= 1 /\ call.out[i] <= call.args[2]
        /\ \A i \in (call.args[1] + 1)..Len(call.out) :
              call.out[i] > call.args[1]

\* the player stands right behind the top band, where the front of the
\* window has to be held back
C38_Witness ==
    /\ PlayerBlockCase
    /\ call.args[3] = call.args[1] + 1
    /\ call.out[call.args[1] + 1] = call.args[1] + 1

(***************************************************************************)
(* C39: in a lap-type race (no race time entered) the total race laps that *)
(* run_calculation computes the requirement from, and holds after the      *)
(* loop, are the formation laps plus the entered race laps, however many   *)
(* passes the loop has made.                                               *)
(***************************************************************************)
C39_LapRaceTotalLaps ==
    ( /\ call.op \in { "run_calculation", "returned" }
      /\ call.args[1].total_race_seconds = 0
      /\ call.out[1].iterations >= 1 )
        => call.out[1].total_race_laps
              = call.args[1].total_formation_laps
                  + call.args[1].total_race_laps

(***************************************************************************)
(* SpecRecording: the fuel module's thread over activations, with the      *)
(* readings drawn at every tick: update_data creates a generator on the    *)
(* tick that finds telemetry active (lines 56-67), sends it True on every  *)
(* active tick (line 70) and False on the tick that finds telemetry idle   *)
(* (lines 84-89).  No curve of MinRows rows arises within MaxKnots, so     *)
(* save_delta returns without opening the file.  The lap-start time takes  *)
(* four values, so that a boundary can follow the boundary that closed a   *)
(* recorded lap.  call.out[1] keeps what the ticks                         *)
(* of the living generator have done:                                      *)
(*   first      no lap boundary was detected yet                           *)
(*   late       the latest boundary was detected on a tick whose current   *)
(*              lap time read 1 s or more                                  *)
(*   skipped    in the current lap a tick read a position further than    *)
(*              pos_last, with first or late set                           *)
(*   sampled    a sample was appended to the curve with first or late set *)
(*   pending    the lap kept for validation was a lap with first or late   *)
(*   reference  the lap installed last was such a lap                      *)
(*   closed     the latest tick closed a lap with skipped set              *)
(***************************************************************************)
RecordingLapStarts == {1, 2, 3, 4}

RecordingInit ==
    [ first |-> TRUE, late |-> FALSE, skipped |-> FALSE, sampled |-> FALSE,
      pending |-> FALSE, reference |-> FALSE, closed |-> FALSE ]

RecordingStep(h, g, t) ==
    LET boundary == IsBoundary(g, t)
        laptime_curr == Max(t.current_laptime, 0)
        g1 == FuelStep(g, t)
        first == h.first /\ ~boundary
        late == IF boundary THEN laptime_curr >= DesyncLapTime ELSE h.late
        before == IF boundary THEN <<DELTA_ZERO>> ELSE g.delta_list_curr
        further == /\ ~boundary
                   /\ ~IsDesync(laptime_curr, t.pos_curr)
                   /\ t.pos_curr > g.pos_last
        install == IsInstalling(ValidatingNow(g, t), t)
        pending == IF IsMarked(g, t) THEN h.first \/ h.late ELSE h.pending
    IN  [ first |-> first,
          late |-> late,
          skipped |-> IF boundary THEN FALSE
                      ELSE h.skipped \/ (further /\ (first \/ late)),
          sampled |-> \/ h.sampled
                      \/ (g1.delta_list_curr # before /\ (first \/ late)),
          pending |-> pending,
          reference |-> IF install THEN pending ELSE h.reference,
          closed |-> boundary /\ h.skipped ]

InitRecording ==
    /\ gen = GenInit /\ api = ApiInit /\ mark = NoMark
    /\ scene = SceneDefault /\ relative = RelativeInit
    /\ output = OutputInit /\ pub = PubInit /\ seen = SeenInit
    /\ poll = PollInit /\ disk = DiskInit
    /\ call = [ op |-> "send", args |-> <<>>, out |-> << RecordingInit >> ]

\* lines 56-70: the tick that finds telemetry active after idle: the
\* generator is created, run to its first yield and sent True twice (both
\* sends of the tick read the same values)
RecordingActivate ==
    /\ poll.fuel.pc = "wait" /\ api.state /\ ~poll.fuel.reset
    /\ \E a \in {0, LevelSize}, s \in RecordingLapStarts, l \in LapTimes,
          p \in Positions :
          LET ld == load_delta(disk)
              t1 == [api EXCEPT !.amount_curr = a, !.lap_stime = s,
                                !.current_laptime = l, !.pos_curr = p]
              t2 == t1
              g0 == GenLoaded(ld)
              g1 == FuelStep(g0, t1)
              g2 == FuelStep(g1, t2)
              h1 == RecordingStep(RecordingInit, g0, t1)
          IN  /\ ~ld.raised
              /\ disk' = ld.disk
              /\ gen' = g2
              /\ mark' = MarkStep(g1, MarkStep(g0, NoMark, t1), t2)
              /\ output' = FuelOutput(g2, t2)
              /\ call' = [ call EXCEPT
                             !.out = << RecordingStep(h1, g1, t2) >> ]
    /\ poll' = [ poll EXCEPT !.fuel.reset = TRUE,
                             !.fuel.update_interval = "active",
                             !.fuel.last_tick = "active" ]
    /\ UNCHANGED <<api, relvars, pubvars>>

\* lines 56-57 and 70: a tick that finds telemetry still active
RecordingActive ==
    /\ poll.fuel.pc = "wait" /\ api.state /\ poll.fuel.reset
    /\ \E a \in { v \in {0, LevelSize} : v <= gen.amount_last },
          s \in { v \in RecordingLapStarts : v >= gen.last_lap_stime },
          l \in LapTimes, p \in Positions :
          LET t == [api EXCEPT !.amount_curr = a, !.lap_stime = s,
                               !.current_laptime = l, !.pos_curr = p]
              g == FuelStep(gen, t)
          IN  /\ InBounds(g)
              /\ gen' = g
              /\ mark' = MarkStep(gen, mark, t)
              /\ output' = FuelOutput(g, t)
              /\ call' = [ call EXCEPT
                             !.out = << RecordingStep(call.out[1], gen, t) >> ]
    /\ UNCHANGED <<api, relvars, pubvars, poll, disk>>

NextRecording ==
    \/ RecordingActivate \/ RecordingActive \/ FuelDeactivate \/ FuelIdle
    \/ ApiState \/ ApiElapsed \/ ApiLastLapTime

SpecRecording == InitRecording /\ [][NextRecording]_vars

(***************************************************************************)
(* C37: no sample is appended to the current-lap curve before the first    *)
(* lap boundary a generator detects, nor during a lap whose boundary was   *)
(* detected on a tick with a current lap time of 1 s or more; such a lap   *)
(* is never kept for validation, so the lap in progress at an activation   *)
(* never becomes the reference lap.                                        *)
(***************************************************************************)
C37_NoSampleBeforeRecordedLap ==
    call.op = "send" =>
        /\ ~call.out[1].sampled
        /\ ~call.out[1].pending
        /\ ~call.out[1].reference
        /\ (call.out[1].first \/ call.out[1].late)
              => (~gen.recording /\ gen.delta_list_curr = <<DELTA_ZERO>>)

\* a lap in which no sample was taken although a position was read further
\* than the last one (the lap in progress at the activation, or a lap begun
\* 1 s or more into itself) was closed by a boundary and no lap is pending
C37_Witness ==
    /\ call.op = "send"
    /\ call.out[1].closed
    /\ ~call.out[1].first
    /\ gen.validating = 0
    /\ mark = NoMark

(***************************************************************************)
(* C33: whenever validation has installed a reference lap, used_last is    *)
(* the cumulative-used value of the last sample of the installed           *)
(* delta_list_last, to 6 decimals; for every sequence of ticks, a second   *)
(* lap boundary detected while the first lap awaits validation included.   *)
(* (delayed_save is set by the installing tick and by nothing else, and    *)
(* used_last and delta_list_last change on no other tick.)                 *)
(***************************************************************************)
C33_UsedLastIsInstalledLapUsage ==
    gen.delayed_save
        => Round6(gen.used_last, 7) = Last(gen.delta_list_last)[2]

(***************************************************************************)
(* SpecHistory: the consumption history kept by update_data (lines 72-82). *)
(* minfo.history.consumption is a ring of MaxHistory entries, newest       *)
(* first, that begins with one entry of zeros; minfo.delta is written by   *)
(* the delta module: lapTimeCurrent is the time into the current lap, and  *)
(* at a lap boundary lapTimeLast becomes the time of the lap completed and *)
(* isValidLap its validity.  The telemetry readings stand still.  An entry *)
(* is << lap number, isValidLap, lapTimeLast, lastLapConsumption >>.       *)
(* call.args[1] is minfo.delta with the count of completed laps,           *)
(* call.out[1] the history and the number of entries appended since the    *)
(* last lap boundary.                                                      *)
(***************************************************************************)
HistoryRecordAfter == 20
HistoryLapTimes == {60, 80}
HistoryCurrentTimes == {10, 25, 70}
HistoryZero == << 0, FALSE, 0, 0 >>

\* mutant: the newest entry's lap time is not looked at
HistoryDueAnyEntry(consumption, delta) ==
    /\ delta.lapTimeLast > delta.lapTimeCurrent
    /\ delta.lapTimeCurrent > HistoryRecordAfter

\* lines 73-74
HistoryDue(consumption, delta) ==
    /\ consumption[1][3] # delta.lapTimeLast
    /\ delta.lapTimeLast > delta.lapTimeCurrent
    /\ delta.lapTimeCurrent > HistoryRecordAfter

\* deque.appendleft on a ring of MaxHistory entries
AppendLeft(consumption, entry) ==
    SubSeq(<< entry >> \o consumption, 1,
           Min(Len(consumption) + 1, MaxHistory))

InitHistory ==
    /\ gen = GenInit /\ api = ApiInit /\ mark = NoMark
    /\ scene = SceneDefault /\ relative = RelativeInit
    /\ output = OutputInit /\ pub = PubInit /\ seen = SeenInit
    /\ poll = PollInit /\ disk = DiskInit
    /\ call = [ op |-> "history",
                args |-> << [ lapTimeLast |-> 0, lapTimeCurrent |-> 0,
                              isValidLap |-> FALSE, completed_laps |-> 0 ] >>,
                out |-> << [ consumption |-> << HistoryZero >>,
                             appended |-> 0 ] >> ]

\* lines 55-82: an active tick: the generator is sent True, then the
\* history is updated
HistoryTick ==
    /\ call.op = "history"
    /\ LET g == FuelStep(gen, api)
           out == FuelOutput(g, api)
           delta == call.args[1]
           consumption == call.out[1].consumption
           entry == << delta.completed_laps - 1, delta.isValidLap,
                       delta.lapTimeLast, out.lastLapConsumption >>
       IN  /\ gen' = g
           /\ mark' = MarkStep(gen, mark, api)
           /\ output' = out
           /\ call' = IF HistoryDue(consumption, delta)
                      THEN [ call EXCEPT
                               !.out = << [ consumption |->
                                              AppendLeft(consumption, entry),
                                            appended |->
                                              call.out[1].appended + 1 ] >> ]
                      ELSE call
    /\ UNCHANGED <<api, relvars, pubvars, poll, disk>>

\* the delta module moves the time into the current lap
HistoryLapTime ==
    /\ call.op = "history"
    /\ \E v \in HistoryCurrentTimes :
          /\ v > call.args[1].lapTimeCurrent
          /\ call' = [ call EXCEPT !.args[1].lapTimeCurrent = v ]
    /\ UNCHANGED <<fuelvars, relvars, output, pubvars, poll, disk>>

\* the delta module finds a lap completed
HistoryBoundary ==
    /\ call.op = "history"
    /\ call.args[1].completed_laps < MaxLapStart
    /\ \E v \in HistoryLapTimes, valid \in BOOLEAN :
          call' = [ call EXCEPT
                      !.args = << [ lapTimeLast |-> v, lapTimeCurrent |-> 0,
                                    isValidLap |-> valid,
                                    completed_laps |->
                                       call.args[1].completed_laps + 1 ] >>,
                      !.out[1].appended = 0 ]
    /\ UNCHANGED <<fuelvars, relvars, output, pubvars, poll, disk>>

NextHistory == HistoryTick \/ HistoryLapTime \/ HistoryBoundary

SpecHistory == InitHistory /\ [][NextHistory]_vars

(***************************************************************************)
(* C31: the history changes only by one entry put at its front, the other  *)
(* entries staying as they are (the oldest leaves a full ring), and only   *)
(* on a tick where the newest entry's lap time differs from lapTimeLast    *)
(* and lapTimeLast > lapTimeCurrent > 2 s; so at most one entry is         *)
(* appended per completed lap, carrying that lap's time, more than 2 s     *)
(* into the lap that follows it.                                           *)
(***************************************************************************)
C31_HistoryAppendOnly ==
    [][ LET old == call.out[1].consumption
            new == call'.out[1].consumption
            delta == call.args[1]
        IN  /\ new # old =>
                 /\ Len(new) = Min(Len(old) + 1, MaxHistory)
                 /\ SubSeq(new, 2, Len(new)) = SubSeq(old, 1, Len(new) - 1)
                 /\ old[1][3] # delta.lapTimeLast
                 /\ delta.lapTimeLast > delta.lapTimeCurrent
                 /\ delta.lapTimeCurrent > HistoryRecordAfter
                 /\ new[1][3] = delta.lapTimeLast
                 /\ new[1][1] = delta.completed_laps - 1
            /\ call'.out[1].appended <= 1 ]_vars

\* the ring is full and the entry of the latest lap has been put in front
\* of the entries of earlier laps
C31_Witness ==
    /\ call.op = "history"
    /\ call.out[1].appended = 1
    /\ Len(call.out[1].consumption) = MaxHistory
    /\ call.out[1].consumption[2] # HistoryZero
    /\ call.out[1].consumption[1][1] = call.args[1].completed_laps - 1

(***************************************************************************)
(* C34: one DataModule instance has at most one update_data thread alive   *)
(* at any time, for every interleaving of start() and stop() with the      *)
(* polling thread, a stop() followed at once by a start() while the old    *)
(* thread is inside a tick included.  (A thread whose wait stop() has      *)
(* released is on its way out and is not counted.)                         *)
(***************************************************************************)
AliveThreads ==
    { i \in Threads : poll.relative.threads[i].pc \in { "wait", "tick" } }

C34_OneUpdateThread == Cardinality(AliveThreads) <= 1

(***************************************************************************)
(* SpecSaving: Setting.save() and the course of the saving thread          *)
(* (setting.py lines 146-253) over two of the files ("setting", "brands"). *)
(* save() is one step here (its interleavings are SpecSave's).  The user   *)
(* data of a file type is a version number that an edit raises; a file     *)
(* holds the version written to it, or BrokenFile after a write that does  *)
(* not verify.  A write attempt ends in one of three ways: "ok" (written   *)
(* and verified), "bad" (written, verify_json_file returns False) and      *)
(* "raise" (open() raises in save_json_file).  call.args[1] is the setting *)
(* maximum_saving_attempts; call.out[1] holds                              *)
(*   is_saving, save_delay   the fields of Setting                         *)
(*   pc        where the saving thread is: "idle" (none), "delay",         *)
(*             "write", "final", or "dead" (left by an exception)          *)
(*   target    the file type the thread was started for                    *)
(*   attempts  the thread's local                                          *)
(*   writes    calls of save_json_file by the thread                       *)
(*   user, file, bak   the user data, the files and the .bak file          *)
(*   before    the file as it was when the thread took its backup          *)
(*   asked     the file type and the version of the latest save() call     *)
(*   calls     the save() calls made, MaxSaves at most                     *)
(***************************************************************************)
MinimumAttempts == 3
BrokenFile == -1
NoFile == -2
SaveFileTypes == { "setting", "brands" }
AttemptSettings == { 1, 4 }
DelayCounts == { 0, 2 }

SettingInit ==
    [ is_saving |-> FALSE, save_delay |-> 0, pc |-> "idle",
      target |-> "setting", attempts |-> 0, writes |-> 0,
      user |-> [ f \in SaveFileTypes |-> 0 ],
      file |-> [ f \in SaveFileTypes |-> 0 ],
      bak |-> NoFile, before |-> NoFile, asked |-> <<>>, calls |-> 0 ]

InitSaving ==
    /\ gen = GenInit /\ api = ApiInit /\ mark = NoMark
    /\ scene = SceneDefault /\ relative = RelativeInit
    /\ output = OutputInit /\ pub = PubInit /\ seen = SeenInit
    /\ poll = PollInit /\ disk = DiskInit
    /\ \E n \in AttemptSettings :
          call = [ op |-> "save", args |-> << n >>, out |-> << SettingInit >> ]

\* a setting of the file type is changed in memory
UserEdit(f) ==
    /\ call.op = "save"
    /\ call.out[1].user["setting"] + call.out[1].user["brands"] < MaxSaves
    /\ call' = [ call EXCEPT !.out[1].user[f] = @ + 1 ]
    /\ UNCHANGED <<fuelvars, relvars, output, pubvars, poll, disk>>

\* lines 156-167: save(count, file_type)
SaveCall(count, f) ==
    /\ call.op = "save"
    /\ call.out[1].calls < MaxSaves
    /\ LET st == call.out[1]
           called == [ st EXCEPT !.save_delay = count,
                                 !.asked = << f, st.user[f] >>,
                                 !.calls = @ + 1 ]
       IN  call' = [ call EXCEPT !.out[1] =
                       IF ~st.is_saving
                       THEN [ called EXCEPT !.is_saving = TRUE,
                                            !.pc = "delay",
                                            !.target = f,
                                            !.attempts = 0,
                                            !.writes = 0,
                                            !.before = NoFile ]
                       ELSE called ]
    /\ UNCHANGED <<fuelvars, relvars, output, pubvars, poll, disk>>

\* lines 174-176: one pass of the delay loop
SaveThreadDelay ==
    /\ call.op = "save"
    /\ call.out[1].pc = "delay"
    /\ call.out[1].save_delay > 0
    /\ call' = [ call EXCEPT !.out[1].save_delay = @ - 1 ]
    /\ UNCHANGED <<fuelvars, relvars, output, pubvars, poll, disk>>

\* lines 171, 174, 179-180: the delay loop ends and the file is copied to
\* its backup
SaveThreadBackup ==
    /\ call.op = "save"
    /\ call.out[1].pc = "delay"
    /\ call.out[1].save_delay = 0
    /\ LET st == call.out[1]
       IN  call' = [ call EXCEPT !.out[1] =
                       [ st EXCEPT !.pc = "write",
                                   !.attempts = Max(call.args[1],
                                                    MinimumAttempts),
                                   !.bak = st.file[st.target],
                                   !.before = st.file[st.target] ] ]
    /\ UNCHANGED <<fuelvars, relvars, output, pubvars, poll, disk>>

\* lines 182-188: one pass of the attempt loop; json.dump writes the user
\* data as it is at the time of the write
SaveThreadAttempt(outcome) ==
    /\ call.op = "save"
    /\ call.out[1].pc = "write"
    /\ LET st == call.out[1]
           tried == [ st EXCEPT !.writes = @ + 1 ]
       IN  call' = [ call EXCEPT !.out[1] =
                       IF outcome = "raise"
                       THEN [ tried EXCEPT !.pc = "dead" ]
                       ELSE IF outcome = "ok"
                       THEN [ tried EXCEPT
                                !.file[st.target] = st.user[st.target],
                                !.pc = "final" ]
                       ELSE [ tried EXCEPT
                                !.file[st.target] = BrokenFile,
                                !.attempts = @ - 1,
                                !.pc = IF st.attempts - 1 > 0 THEN "write"
                                       ELSE "final" ] ]
    /\ UNCHANGED <<fuelvars, relvars, output, pubvars, poll, disk>>

\* lines 191-202: restore if no attempt is left, delete the backup, reset
\* is_saving
SaveThreadFinal ==
    /\ call.op = "save"
    /\ call.out[1].pc = "final"
    /\ LET st == call.out[1]
       IN  call' = [ call EXCEPT !.out[1] =
                       [ st EXCEPT
                           !.file[st.target] = IF st.attempts > 0 THEN @
                                               ELSE st.bak,
                           !.bak = NoFile,
                           !.is_saving = FALSE,
                           !.pc = "idle" ] ]
    /\ UNCHANGED <<fuelvars, relvars, output, pubvars, poll, disk>>

NextSaving ==
    \/ \E f \in SaveFileTypes : UserEdit(f)
    \/ \E count \in DelayCounts, f \in SaveFileTypes : SaveCall(count, f)
    \/ SaveThreadDelay
    \/ SaveThreadBackup
    \/ \E outcome \in { "ok", "bad", "raise" } : SaveThreadAttempt(outcome)
    \/ SaveThreadFinal

SpecSaving == InitSaving /\ [][NextSaving]_vars

\* every write verifies; the saving thread goes on whenever it can
NextSavingFair ==
    \/ \E f \in SaveFileTypes : UserEdit(f)
    \/ \E count \in DelayCounts, f \in SaveFileTypes : SaveCall(count, f)
    \/ SaveThreadDelay
    \/ SaveThreadBackup
    \/ SaveThreadAttempt("ok")
    \/ SaveThreadFinal

SpecSavingFair ==
    /\ InitSaving /\ [][NextSavingFair]_vars
    /\ WF_vars(SaveThreadDelay) /\ WF_vars(SaveThreadBackup)
    /\ WF_vars(SaveThreadAttempt("ok")) /\ WF_vars(SaveThreadFinal)

(***************************************************************************)
(* C32: the saving thread calls save_json_file max(maximum_saving_attempts,*)
(* 3) times at most and stops at the first write that verifies; if no      *)
(* write verifies the file is restored from the backup taken before the    *)
(* first attempt; and however the thread ends, a write that raises         *)
(* included, the backup is removed and is_saving is False again.           *)
(***************************************************************************)
SavingEnded == call.out[1].pc \in { "idle", "dead" } /\ call.out[1].writes > 0

C32_AttemptsBoundedAndCleanedUp ==
    call.op = "save" =>
        LET st == call.out[1]
            max_attempts == Max(call.args[1], MinimumAttempts)
        IN  /\ st.writes <= max_attempts
            /\ (st.pc \in { "final", "idle" } /\ st.attempts > 0)
                  => st.writes = max_attempts - st.attempts + 1
            /\ (st.pc = "idle" /\ st.writes > 0 /\ st.attempts = 0)
                  => st.file[st.target] = st.before
            /\ SavingEnded => (st.bak = NoFile /\ ~st.is_saving)

(***************************************************************************)
(* C35: every save() call is followed in the end by a completed write of   *)
(* the file asked for that holds the settings as they were at the call (or *)
(* later ones), a call that comes while a saving thread is past its delay  *)
(* loop and a call for another file type than the running thread's         *)
(* included.                                                               *)
(***************************************************************************)
C35_EverySaveIsWritten ==
    \A f \in SaveFileTypes : \A v \in 0..MaxSaves :
        (call.op = "save" /\ call.out[1].asked = << f, v >>)
            ~> (call.out[1].file[f] >= v)

====
